---------------------------- MODULE Spec2Model ----------------------------
(***************************************************************************)
(* Model of the content-generation service of YCP-Servizi                  *)
(* (backend/services/openaiService.ts) and of the HTTP handler that calls  *)
(* it (pages/api/generate.ts); and of the token functions of              *)
(* backend/services/authService.ts with the middleware withAuth; and of    *)
(* the endpoints that read and write the database.                         *)
(*                                                                         *)
(* JavaScript values are modelled as tagged records, strings that the code *)
(* parses (environment overrides) as sequences of one-character strings,   *)
(* and JavaScript numbers as exact decimals mant * 10^-exp, or NaN.        *)
(***************************************************************************)
EXTENDS Integers, Sequences, FiniteSets, TLC

VARIABLES
    env,               \* process.env, as the running process sees it
    OPENAI_API_KEY,    \* module constant, captured when the module is loaded
    generationConfig,  \* module constant, built when the module is loaded
    calls,             \* the generateContent calls, one record per call slot
    JWT_SECRET,        \* module constant of authService.ts
    now,               \* the clock, in seconds
    auth,              \* the token issued last and the last operation on tokens
    db,                \* the tables of the database
    reqs               \* the requests to the endpoints that use the database

genVars == <<env, OPENAI_API_KEY, generationConfig, calls>>

authVars == <<JWT_SECRET, now, auth>>

dbVars == <<db, reqs>>

vars == <<env, OPENAI_API_KEY, generationConfig, calls, JWT_SECRET, now, auth,
          db, reqs>>

-----------------------------------------------------------------------------
(* Bounds of the model.                                                    *)

\* Longest override string enumerated for an environment variable.
MaxLen == 3

\* Characters the enumerated override strings are built from: two digits,
\* the decimal point, the minus sign, a letter and a blank.
Alphabet == {"0", "3", ".", "-", "a", " "}

-----------------------------------------------------------------------------
(* JavaScript numbers: NaN, or the decimal mant * 10^-exp with no trailing *)
(* zero in the fraction.                                                   *)

NaN == [nan |-> TRUE, mant |-> 0, exp |-> 0]

RECURSIVE Normalise(_, _)
Normalise(m, e) ==
    IF e > 0 /\ m % 10 = 0 THEN Normalise(m \div 10, e - 1)
    ELSE [nan |-> FALSE, mant |-> m, exp |-> e]

Dec(m, e) == Normalise(m, e)

RECURSIVE Pow10(_)
Pow10(n) == IF n = 0 THEN 1 ELSE 10 * Pow10(n - 1)

-----------------------------------------------------------------------------
(* Strings of process.env: a value is either undefined or a string.        *)

Undefined == [set |-> FALSE, v |-> <<>>]
StringVal(s) == [set |-> TRUE, v |-> s]

\* JavaScript truthiness of a string-or-undefined: a non-empty string.
Truthy(x) == x.set /\ Len(x.v) > 0

IsDigit(c) == c \in {"0", "1", "2", "3", "4", "5", "6", "7", "8", "9"}

DigitVal(c) ==
    CASE c = "0" -> 0 [] c = "1" -> 1 [] c = "2" -> 2 [] c = "3" -> 3
      [] c = "4" -> 4 [] c = "5" -> 5 [] c = "6" -> 6 [] c = "7" -> 7
      [] c = "8" -> 8 [] c = "9" -> 9

IsWhiteSpace(c) == c \in {" ", "\t", "\n", "\r"}

RECURSIVE TrimStart(_)
TrimStart(s) ==
    IF s # <<>> /\ IsWhiteSpace(Head(s)) THEN TrimStart(Tail(s)) ELSE s

\* The longest prefix of s made of decimal digits.
RECURSIVE TakeDigits(_)
TakeDigits(s) ==
    IF s # <<>> /\ IsDigit(Head(s)) THEN <<Head(s)>> \o TakeDigits(Tail(s))
    ELSE <<>>

RECURSIVE DigitsToInt(_)
DigitsToInt(ds) ==
    IF ds = <<>> THEN 0
    ELSE 10 * DigitsToInt(SubSeq(ds, 1, Len(ds) - 1)) + DigitVal(ds[Len(ds)])

Drop(s, n) == SubSeq(s, n + 1, Len(s))

\* parseFloat(string): leading white space is skipped, then the longest
\* prefix that is a decimal literal (sign, digits, point, digits) is
\* converted; NaN when there is no such prefix.  Exponents and "Infinity"
\* need characters outside Alphabet.
parseFloat(str) ==
    LET t     == TrimStart(str)
        neg   == t # <<>> /\ Head(t) = "-"
        plus  == t # <<>> /\ Head(t) = "+"
        u     == IF neg \/ plus THEN Tail(t) ELSE t
        int   == TakeDigits(u)
        r     == Drop(u, Len(int))
        frac  == IF r # <<>> /\ Head(r) = "." THEN TakeDigits(Tail(r)) ELSE <<>>
        m     == DigitsToInt(int) * Pow10(Len(frac)) + DigitsToInt(frac)
    IN  IF Len(int) + Len(frac) = 0 THEN NaN
        ELSE Dec(IF neg THEN -m ELSE m, Len(frac))

\* parseInt(string, 10): leading white space is skipped, then an optional
\* sign and the longest run of decimal digits; NaN when there is no digit.
parseInt(str, radix) ==
    LET t     == TrimStart(str)
        neg   == t # <<>> /\ Head(t) = "-"
        plus  == t # <<>> /\ Head(t) = "+"
        u     == IF neg \/ plus THEN Tail(t) ELSE t
        int   == TakeDigits(u)
        m     == DigitsToInt(int)
    IN  IF Len(int) = 0 THEN NaN
        ELSE Dec(IF neg THEN -m ELSE m, 0)

-----------------------------------------------------------------------------
(* The generation types and the configuration table.                       *)

GenerationTypes ==
    {"blurb", "description", "keywords", "categories", "foreword", "analysis"}

OverrideNames ==
    {"OPENAI_BLURB_TEMPERATURE", "OPENAI_BLURB_MAX_TOKENS",
     "OPENAI_DESCRIPTION_TEMPERATURE", "OPENAI_DESCRIPTION_MAX_TOKENS",
     "OPENAI_KEYWORDS_TEMPERATURE", "OPENAI_KEYWORDS_MAX_TOKENS",
     "OPENAI_CATEGORIES_TEMPERATURE", "OPENAI_CATEGORIES_MAX_TOKENS",
     "OPENAI_FOREWORD_TEMPERATURE", "OPENAI_FOREWORD_MAX_TOKENS",
     "OPENAI_ANALYSIS_TEMPERATURE", "OPENAI_ANALYSIS_MAX_TOKENS"}

EnvNames == {"OPENAI_API_KEY"} \cup OverrideNames

\* const OPENAI_API_KEY: string = process.env.OPENAI_API_KEY || ''
LoadApiKey(e) ==
    IF Truthy(e["OPENAI_API_KEY"]) THEN e["OPENAI_API_KEY"].v ELSE <<>>

\* The object literal of generationConfig, evaluated over process.env e.
GenerationConfigTable(e) ==
    [blurb |->
        [temperature |->
            IF Truthy(e["OPENAI_BLURB_TEMPERATURE"])
            THEN parseFloat(e["OPENAI_BLURB_TEMPERATURE"].v)
            ELSE Dec(7, 1),
         max_tokens |->
            IF Truthy(e["OPENAI_BLURB_MAX_TOKENS"])
            THEN parseInt(e["OPENAI_BLURB_MAX_TOKENS"].v, 10)
            ELSE Dec(500, 0)],
     description |->
        [temperature |->
            IF Truthy(e["OPENAI_DESCRIPTION_TEMPERATURE"])
            THEN parseFloat(e["OPENAI_DESCRIPTION_TEMPERATURE"].v)
            ELSE Dec(7, 1),
         max_tokens |->
            IF Truthy(e["OPENAI_DESCRIPTION_MAX_TOKENS"])
            THEN parseInt(e["OPENAI_DESCRIPTION_MAX_TOKENS"].v, 10)
            ELSE Dec(500, 0)],
     keywords |->
        [temperature |->
            IF Truthy(e["OPENAI_KEYWORDS_TEMPERATURE"])
            THEN parseFloat(e["OPENAI_KEYWORDS_TEMPERATURE"].v)
            ELSE Dec(5, 1),
         max_tokens |->
            IF Truthy(e["OPENAI_KEYWORDS_MAX_TOKENS"])
            THEN parseInt(e["OPENAI_KEYWORDS_MAX_TOKENS"].v, 10)
            ELSE Dec(150, 0)],
     categories |->
        [temperature |->
            IF Truthy(e["OPENAI_CATEGORIES_TEMPERATURE"])
            THEN parseFloat(e["OPENAI_CATEGORIES_TEMPERATURE"].v)
            ELSE Dec(6, 1),
         max_tokens |->
            IF Truthy(e["OPENAI_CATEGORIES_MAX_TOKENS"])
            THEN parseInt(e["OPENAI_CATEGORIES_MAX_TOKENS"].v, 10)
            ELSE Dec(200, 0)],
     foreword |->
        [temperature |->
            IF Truthy(e["OPENAI_FOREWORD_TEMPERATURE"])
            THEN parseFloat(e["OPENAI_FOREWORD_TEMPERATURE"].v)
            ELSE Dec(7, 1),
         max_tokens |->
            IF Truthy(e["OPENAI_FOREWORD_MAX_TOKENS"])
            THEN parseInt(e["OPENAI_FOREWORD_MAX_TOKENS"].v, 10)
            ELSE Dec(400, 0)],
     analysis |->
        [temperature |->
            IF Truthy(e["OPENAI_ANALYSIS_TEMPERATURE"])
            THEN parseFloat(e["OPENAI_ANALYSIS_TEMPERATURE"].v)
            ELSE Dec(8, 1),
         max_tokens |->
            IF Truthy(e["OPENAI_ANALYSIS_MAX_TOKENS"])
            THEN parseInt(e["OPENAI_ANALYSIS_MAX_TOKENS"].v, 10)
            ELSE Dec(600, 0)]]

\* Mutant: the foreword entry copied from the description entry with its
\* default of 500 tokens left in.
LoadGenerationConfig_ForewordDefaultCopied(e) ==
    [GenerationConfigTable(e) EXCEPT
        !.foreword.max_tokens =
            IF Truthy(e["OPENAI_FOREWORD_MAX_TOKENS"])
            THEN parseInt(e["OPENAI_FOREWORD_MAX_TOKENS"].v, 10)
            ELSE Dec(500, 0)]

\* const generationConfig = { ... }: the table is built once, when the module
\* is loaded.
LoadGenerationConfig(e) == GenerationConfigTable(e)

-----------------------------------------------------------------------------
(* The prompt of each generation type.                                     *)

BlurbClause ==
    "Genera un testo accattivante per la copertina posteriore del libro basandoti sul seguente contenuto:\n\n"
DescriptionClause ==
    "Genera una descrizione convincente per la pagina prodotto di un libro (ad esempio, su Amazon) basata sul seguente contenuto:\n\n"
KeywordsClause ==
    "Genera un insieme di parole chiave rilevanti per il libro basato sul seguente contenuto:\n\n"
CategoriesClause ==
    "Assegna una categoria principale e due sottocategorie per il libro dal catalogo, basandoti sul seguente contenuto:\n\n"
CategoriesJsonClause ==
    "\n\nRispondi in formato JSON con \"main\" per la categoria principale e \"sub\" come array per le sottocategorie."
\* Mutant: the foreword case copied from the blurb case, its text unchanged.
ForewordClause_CopiedFromBlurb == BlurbClause

ForewordClause ==
    "Genera un prologo coinvolgente per il libro basandoti sul seguente contenuto:\n\n"
AnalysisClause ==
    "Fornisci un'analisi approfondita del libro basandoti sul seguente contenuto:\n\n"

\* The switch of generateContent: the prompt, or the thrown error of the
\* default branch.
\* Mutant: the source text is appended to a buffer of the module that a call
\* in flight has not yet cleared.
BuildPrompt_SharedBuffer(type, extractedText) ==
    LET inFlight == {c \in DOMAIN calls : calls[c].pc = "awaiting"}
        buffer == IF inFlight = {} THEN ""
                  ELSE calls[CHOOSE c \in inFlight : TRUE].text
        text == buffer \o extractedText
    IN  CASE type = "blurb" -> [ok |-> TRUE, prompt |-> BlurbClause \o text]
          [] type = "description" ->
                [ok |-> TRUE, prompt |-> DescriptionClause \o text]
          [] type = "keywords" ->
                [ok |-> TRUE, prompt |-> KeywordsClause \o text]
          [] type = "categories" ->
                [ok |-> TRUE,
                 prompt |-> CategoriesClause \o text \o CategoriesJsonClause]
          [] type = "foreword" ->
                [ok |-> TRUE, prompt |-> ForewordClause \o text]
          [] type = "analysis" ->
                [ok |-> TRUE, prompt |-> AnalysisClause \o text]
          [] OTHER -> [ok |-> FALSE, prompt |-> ""]

BuildPrompt(type, extractedText) ==
    CASE type = "blurb" ->
            [ok |-> TRUE, prompt |-> BlurbClause \o extractedText]
      [] type = "description" ->
            [ok |-> TRUE, prompt |-> DescriptionClause \o extractedText]
      [] type = "keywords" ->
            [ok |-> TRUE, prompt |-> KeywordsClause \o extractedText]
      [] type = "categories" ->
            [ok |-> TRUE,
             prompt |-> CategoriesClause \o extractedText \o CategoriesJsonClause]
      [] type = "foreword" ->
            [ok |-> TRUE, prompt |-> ForewordClause \o extractedText]
      [] type = "analysis" ->
            [ok |-> TRUE, prompt |-> AnalysisClause \o extractedText]
      [] OTHER ->
            [ok |-> FALSE, prompt |-> ""]

-----------------------------------------------------------------------------
(* JavaScript values of a parsed JSON body.                                *)

JUndefined == [t |-> "undefined"]
JNull      == [t |-> "null"]
JBool(b)   == [t |-> "boolean", b |-> b]
JNum(n)    == [t |-> "number", n |-> n]
JStr(s)    == [t |-> "string", s |-> s]
JArr(a)    == [t |-> "array", a |-> a]
JObj(o)    == [t |-> "object", o |-> o]

EmptyObject == JObj([k \in {} |-> JUndefined])

\* !!v
JsTruthy(v) ==
    CASE v.t = "undefined" -> FALSE
      [] v.t = "null"      -> FALSE
      [] v.t = "boolean"   -> v.b
      [] v.t = "number"    -> ~v.n.nan /\ v.n.mant # 0
      [] v.t = "string"    -> v.s # ""
      [] v.t = "array"     -> TRUE
      [] v.t = "object"    -> TRUE

\* v[k] for a v that is neither null nor undefined (those throw a TypeError,
\* see ExtractGeneratedText).  Indexing a string by position is not modelled.
Get(v, k) ==
    CASE v.t = "object" -> IF k \in DOMAIN v.o THEN v.o[k] ELSE JUndefined
      [] v.t = "array"  -> IF k = "0" /\ Len(v.a) >= 1 THEN v.a[1] ELSE JUndefined
      [] v.t \in {"boolean", "number"} -> JUndefined
      [] v.t = "string" /\ k # "0" -> JUndefined

\* v?.k
OptGet(v, k) == IF v.t \in {"undefined", "null"} THEN JUndefined ELSE Get(v, k)

\* data.choices && data.choices[0]?.message?.content
ExtractGeneratedText(data) ==
    IF data.t \in {"undefined", "null"}
    THEN [threw |-> TRUE, value |-> JUndefined]
    ELSE LET choices == Get(data, "choices")
         IN  IF ~JsTruthy(choices)
             THEN [threw |-> FALSE, value |-> choices]
             ELSE [threw |-> FALSE,
                   value |-> OptGet(OptGet(Get(choices, "0"), "message"), "content")]

\* JSON.stringify of a number: NaN is written as null.
JsonNumber(n) == IF n.nan THEN JNull ELSE JNum(n)

-----------------------------------------------------------------------------
(* What fetch can settle with.                                             *)

\* fetch rejected (no response at all).
FetchRejected ==
    [kind |-> "rejected", ok |-> FALSE, status |-> 0, text |-> "",
     parses |-> FALSE, data |-> JUndefined, reads |-> TRUE]

\* A response with a non-success status and a raw body.
ErrorResponse(status, text) ==
    [kind |-> "response", ok |-> FALSE, status |-> status, text |-> text,
     parses |-> FALSE, data |-> JUndefined, reads |-> TRUE]

\* A success response whose body is not JSON: response.json() rejects.
UnparsableResponse ==
    [kind |-> "response", ok |-> TRUE, status |-> 200, text |-> "<html>",
     parses |-> FALSE, data |-> JUndefined, reads |-> TRUE]

\* A success response whose body parses to data.
OkResponse(data) ==
    [kind |-> "response", ok |-> TRUE, status |-> 200, text |-> "",
     parses |-> TRUE, data |-> data, reads |-> TRUE]

\* The response once its body was read (response.text() or response.json()
\* settled): reads is FALSE when the body stream failed.
BodyRead(result, reads) == [result EXCEPT !.reads = reads]

\* The answer the categories prompt asks for.
CategoriesJson == "{\"main\":\"Fiction\",\"sub\":[\"Mystery\",\"Thriller\"]}"

Choice(content) == JObj([message |-> JObj([content |-> content])])
Completion(content) == JObj([choices |-> JArr(<<Choice(content)>>)])

-----------------------------------------------------------------------------
(* generateContent.                                                        *)

InvalidTypeMessage == "Tipo di generazione non supportato."
MissingKeyMessage ==
    "La chiave API OpenAI non è impostata. Verifica la configurazione."
GenerationFailedMessage == "Impossibile generare il contenuto al momento."
InvalidResponseMessage == "Risposta dell'API OpenAI non valida."
UpstreamErrorMessage(status, errorDetails) ==
    "Errore nella chiamata all'API OpenAI: " \o ToString(status) \o " - "
        \o errorDetails

SystemInstruction ==
    "Sei un assistente esperto nella generazione di contenuti per libri in italiano."
Endpoint == "https://api.openai.com/v1/chat/completions"
Model == "gpt-3.5-turbo"

NoRequest == [sent |-> FALSE]
NoResult  == [kind |-> "none"]
Pending   == [kind |-> "pending", value |-> JUndefined, message |-> ""]
Returned(v) == [kind |-> "returned", value |-> v, message |-> ""]
Threw(m)    == [kind |-> "threw", value |-> JUndefined, message |-> m]

\* The HTTP response of the generate endpoint; status 0: none yet.
NoHttp == [status |-> 0, message |-> "", error |-> "", output |-> JUndefined]

\* A call slot with no call in it.  invoked counts the generation functions
\* called, sent the requests handed to fetch, logAttempts the calls of
\* recordLog.
Idle ==
    [pc |-> "idle", via |-> "", type |-> "", text |-> "", invoked |-> 0,
     sent |-> 0, request |-> NoRequest, result |-> NoResult,
     outcome |-> Pending, logged |-> <<>>, http |-> NoHttp, logAttempts |-> 0]

\* The arguments of fetch: the request generateContent sends.
BuildRequest(key, config, prompt) ==
    [sent |-> TRUE,
     url |-> Endpoint,
     method |-> "POST",
     authorization |-> [scheme |-> "Bearer", credential |-> key],
     body |-> [model |-> Model,
               messages |-> << [role |-> "system", content |-> SystemInstruction],
                               [role |-> "user", content |-> prompt] >>,
               temperature |-> JsonNumber(config.temperature),
               max_tokens |-> JsonNumber(config.max_tokens)]]

\* A call of generateContent that threw before its first await.
ThrewAtOnce(type, extractedText, message) ==
    [Idle EXCEPT !.pc = "done", !.via = "generateContent", !.type = type,
                 !.text = extractedText, !.invoked = 1,
                 !.outcome = Threw(message)]

\* A call of generateContent that sent its request and awaits fetch.
SentRequest(type, extractedText, request) ==
    [Idle EXCEPT !.pc = "awaiting", !.via = "generateContent", !.type = type,
                 !.text = extractedText, !.invoked = 1, !.sent = 1,
                 !.request = request]

\* Mutant: the request body is an object of the module, still holding what a
\* call in flight put into it.
generateContent_SharedRequestBody(type, extractedText, key, table) ==
    LET built == BuildPrompt(type, extractedText)
        inFlight == {c \in DOMAIN calls : calls[c].pc = "awaiting"}
    IN  IF ~built.ok
        THEN ThrewAtOnce(type, extractedText, InvalidTypeMessage)
        ELSE IF key = <<>>
        THEN ThrewAtOnce(type, extractedText, MissingKeyMessage)
        ELSE IF inFlight # {}
        THEN SentRequest(type, extractedText,
                         calls[CHOOSE c \in inFlight : TRUE].request)
        ELSE SentRequest(type, extractedText,
                         BuildRequest(key, table[type], built.prompt))

\* Mutant: the call gives up by itself, with the generic failure, without an
\* answer of the upstream.
generateContent_TimesOut(type, extractedText, key, table) ==
    LET built == BuildPrompt(type, extractedText)
    IN  IF ~built.ok
        THEN ThrewAtOnce(type, extractedText, InvalidTypeMessage)
        ELSE IF key = <<>>
        THEN ThrewAtOnce(type, extractedText, MissingKeyMessage)
        ELSE [SentRequest(type, extractedText,
                          BuildRequest(key, table[type], built.prompt))
                EXCEPT !.pc = "done",
                       !.outcome = Threw(GenerationFailedMessage)]

\* Mutant: the credential is checked before the type switch.
generateContent_KeyCheckFirst(type, extractedText, key, table) ==
    LET built == BuildPrompt(type, extractedText)
    IN  IF key = <<>>
        THEN ThrewAtOnce(type, extractedText, MissingKeyMessage)
        ELSE IF ~built.ok
        THEN ThrewAtOnce(type, extractedText, InvalidTypeMessage)
        ELSE SentRequest(type, extractedText,
                         BuildRequest(key, table[type], built.prompt))

\* generateContent(type, extractedText) up to its first await: the call
\* either throws at once or has sent its request and waits for fetch.
generateContent(type, extractedText, key, table) ==
    LET built == BuildPrompt(type, extractedText)
    IN  IF ~built.ok
        THEN ThrewAtOnce(type, extractedText, InvalidTypeMessage)
        ELSE IF key = <<>>
        THEN ThrewAtOnce(type, extractedText, MissingKeyMessage)
        ELSE SentRequest(type, extractedText,
                         BuildRequest(key, table[type], built.prompt))

\* `${process.env.OPENAI_API_KEY}`: the text of the value, 'undefined' for
\* a variable that is not set.
TemplateOf(x) ==
    IF x.set THEN x.v ELSE <<"u", "n", "d", "e", "f", "i", "n", "e", "d">>

\* The temperature and max_tokens the earlier version sends for every type.
EarlierConfig == [temperature |-> Dec(7, 1), max_tokens |-> Dec(500, 0)]

\* generateContent(type, extractedText) of the earlier version of the
\* service, up to its first await: after the switch the request is sent,
\* with the credential read from process.env e at the call and not tested.
generateContentEarlier(type, extractedText, e) ==
    LET built == BuildPrompt(type, extractedText)
    IN  IF ~built.ok
        THEN ThrewAtOnce(type, extractedText, InvalidTypeMessage)
        ELSE SentRequest(type, extractedText,
                         BuildRequest(TemplateOf(e["OPENAI_API_KEY"]),
                                      EarlierConfig, built.prompt))

\* Mutant: the extracted text is returned without the emptiness check.
TryBlock_NoEmptyCheck(result) ==
    IF result.kind = "rejected"
    THEN [threw |-> TRUE, error |-> "fetch failed", value |-> JUndefined]
    ELSE IF ~result.reads
    THEN [threw |-> TRUE, error |-> "terminated", value |-> JUndefined]
    ELSE IF ~result.ok
    THEN [threw |-> TRUE,
          error |-> UpstreamErrorMessage(result.status, result.text),
          value |-> JUndefined]
    ELSE IF ~result.parses
    THEN [threw |-> TRUE, error |-> "SyntaxError", value |-> JUndefined]
    ELSE LET got == ExtractGeneratedText(result.data)
         IN  IF got.threw
             THEN [threw |-> TRUE, error |-> "TypeError", value |-> JUndefined]
             ELSE [threw |-> FALSE, error |-> "", value |-> got.value]

\* The try block for a settled fetch: the value it returns, or the error it
\* throws.
TryBlock(result) ==
    IF result.kind = "rejected"
    THEN [threw |-> TRUE, error |-> "fetch failed", value |-> JUndefined]
    ELSE IF ~result.reads
    THEN [threw |-> TRUE, error |-> "terminated", value |-> JUndefined]
    ELSE IF ~result.ok
    THEN [threw |-> TRUE,
          error |-> UpstreamErrorMessage(result.status, result.text),
          value |-> JUndefined]
    ELSE IF ~result.parses
    THEN [threw |-> TRUE, error |-> "SyntaxError", value |-> JUndefined]
    ELSE LET got == ExtractGeneratedText(result.data)
         IN  IF got.threw
             THEN [threw |-> TRUE, error |-> "TypeError", value |-> JUndefined]
             ELSE IF ~JsTruthy(got.value)
             THEN [threw |-> TRUE, error |-> InvalidResponseMessage,
                   value |-> JUndefined]
             ELSE [threw |-> FALSE, error |-> "", value |-> got.value]

\* The end of a call whose try block returned, or threw and was caught.
Finish(call, result, t) ==
    IF t.threw
    THEN [call EXCEPT !.pc = "done", !.result = result,
                      !.logged = <<t.error>>,
                      !.outcome = Threw(GenerationFailedMessage)]
    ELSE [call EXCEPT !.pc = "done", !.result = result,
                      !.outcome = Returned(t.value)]

\* Mutant: a categories text that is not the requested JSON is rejected.
generateContentResume_ValidatesCategories(call, result) ==
    LET t == TryBlock(result)
    IN  IF ~t.threw /\ call.type = "categories"
                   /\ t.value # JStr(CategoriesJson)
        THEN Finish(call, result,
                    [threw |-> TRUE, error |-> InvalidResponseMessage,
                     value |-> JUndefined])
        ELSE Finish(call, result, t)

\* Mutant: the catch logs the error and throws it again as it is.
generateContentResume_Rethrows(call, result) ==
    LET t == TryBlock(result)
    IN  IF t.threw
        THEN [call EXCEPT !.pc = "done", !.result = result,
                          !.logged = <<t.error>>, !.outcome = Threw(t.error)]
        ELSE Finish(call, result, t)

\* Mutant: a failed request is sent once more.
generateContentResume_Retries(call, result) ==
    LET t == TryBlock(result)
    IN  IF t.threw /\ call.sent < 2
        THEN [call EXCEPT !.sent = call.sent + 1, !.logged = <<t.error>>]
        ELSE Finish(call, result, t)

\* generateContent from the settling of fetch to its end: the try block and
\* the catch, which logs the error and throws the generic one.
generateContentResume(call, result) ==
    Finish(call, result, TryBlock(result))

\* generateContent when its fetch settles: a rejection goes to the catch; a
\* response is read next (await response.text() when the status is not a
\* success, await response.json() otherwise).
generateContentAfterFetch(call, result) ==
    IF result.kind = "rejected" THEN generateContentResume(call, result)
    ELSE [call EXCEPT !.pc = "reading", !.result = result]

\* generateContent when the read of the body settles.
generateContentAfterBody(call, reads) ==
    generateContentResume(call, BodyRead(call.result, reads))

-----------------------------------------------------------------------------
(* The per-type generation functions and the HTTP handler that calls them. *)

\* _generateContent(prompt, type) up to its first await.
_generateContent(prompt, type, key, table) ==
    IF key = <<>>
    THEN [Idle EXCEPT !.pc = "done", !.type = type, !.invoked = 1,
                      !.outcome = Threw(MissingKeyMessage)]
    ELSE [Idle EXCEPT !.pc = "awaiting", !.type = type, !.invoked = 1,
                      !.sent = 1,
                      !.request = BuildRequest(key, table[type], prompt)]

generateBlurb(extractedText, key, table) ==
    _generateContent(BlurbClause \o extractedText, "blurb", key, table)
generateDescription(extractedText, key, table) ==
    _generateContent(DescriptionClause \o extractedText, "description", key, table)
generateKeywords(extractedText, key, table) ==
    _generateContent(KeywordsClause \o extractedText, "keywords", key, table)
generateCategories(extractedText, key, table) ==
    _generateContent(CategoriesClause \o extractedText \o CategoriesJsonClause,
                     "categories", key, table)
\* Mutant: generateForeword copied from generateDescription with the type
\* argument left as it was.
generateForeword_DescriptionType(extractedText, key, table) ==
    _generateContent(ForewordClause \o extractedText, "description", key, table)

generateForeword(extractedText, key, table) ==
    _generateContent(ForewordClause \o extractedText, "foreword", key, table)
generateAnalysis(extractedText, key, table) ==
    _generateContent(AnalysisClause \o extractedText, "analysis", key, table)

\* The exported function of each type.
FunctionOf(type) ==
    CASE type = "blurb" -> "generateBlurb"
      [] type = "description" -> "generateDescription"
      [] type = "keywords" -> "generateKeywords"
      [] type = "categories" -> "generateCategories"
      [] type = "foreword" -> "generateForeword"
      [] type = "analysis" -> "generateAnalysis"

\* A direct call of the exported function fn with extractedText.
callFunction(fn, extractedText, key, table) ==
    LET call ==
          CASE fn = "generateBlurb" -> generateBlurb(extractedText, key, table)
            [] fn = "generateDescription" ->
                  generateDescription(extractedText, key, table)
            [] fn = "generateKeywords" ->
                  generateKeywords(extractedText, key, table)
            [] fn = "generateCategories" ->
                  generateCategories(extractedText, key, table)
            [] fn = "generateForeword" ->
                  generateForeword(extractedText, key, table)
            [] fn = "generateAnalysis" ->
                  generateAnalysis(extractedText, key, table)
    IN  [call EXCEPT !.via = fn, !.text = extractedText]

\* The responses of the two generate handlers: the status and the texts of
\* the body.  A text the body does not carry is the empty string (the
\* handler of pages/api/generate.ts sends no message with an error, the one
\* of part_011 sends message: ''), and output is the generated text, which
\* the first sends as output and the second as data.output.
MethodNotAllowed ==
    [status |-> 405, message |-> "",
     error |-> "Metodo non consentito. Utilizzare POST.", output |-> JUndefined]
MissingFields ==
    [status |-> 400, message |-> "",
     error |-> "Campi \"type\" e \"extractedText\" sono obbligatori.",
     output |-> JUndefined]
UnsupportedType ==
    [status |-> 400, message |-> "", error |-> InvalidTypeMessage,
     output |-> JUndefined]
InternalError ==
    [status |-> 500, message |-> "",
     error |-> "Errore interno del server durante la generazione del contenuto.",
     output |-> JUndefined]
Success(output) ==
    [status |-> 200, message |-> "Contenuto generato con successo.",
     error |-> "", output |-> output]

\* The handler once the generation function it awaits has ended: the catch
\* logs the error it caught and answers 500.
handlerResume(call) ==
    IF call.via # "handler" \/ call.pc # "done" THEN call
    ELSE IF call.outcome.kind = "returned"
    THEN [call EXCEPT !.http = Success(call.outcome.value)]
    ELSE [call EXCEPT !.http = InternalError,
                      !.logged = Append(@, call.outcome.message)]

\* A request the handler answers without calling a generation function.
Rejected(type, extractedText, http) ==
    [Idle EXCEPT !.pc = "done", !.via = "handler", !.type = type,
                 !.text = extractedText, !.http = http]

\* The handler awaits the generation function it called.
Started(call, extractedText) ==
    handlerResume([call EXCEPT !.via = "handler", !.text = extractedText])

\* Mutant: a type the switch does not know is generated as a blurb.
Dispatch_DefaultIsBlurb(type, extractedText, key, table) ==
    CASE type = "description" ->
            Started(generateDescription(extractedText, key, table), extractedText)
      [] type = "keywords" ->
            Started(generateKeywords(extractedText, key, table), extractedText)
      [] type = "categories" ->
            Started(generateCategories(extractedText, key, table), extractedText)
      [] type = "foreword" ->
            Started(generateForeword(extractedText, key, table), extractedText)
      [] type = "analysis" ->
            Started(generateAnalysis(extractedText, key, table), extractedText)
      [] OTHER ->
            Started(generateBlurb(extractedText, key, table), extractedText)

\* The switch of the handler.
Dispatch(type, extractedText, key, table) ==
    CASE type = "blurb" ->
            Started(generateBlurb(extractedText, key, table), extractedText)
      [] type = "description" ->
            Started(generateDescription(extractedText, key, table), extractedText)
      [] type = "keywords" ->
            Started(generateKeywords(extractedText, key, table), extractedText)
      [] type = "categories" ->
            Started(generateCategories(extractedText, key, table), extractedText)
      [] type = "foreword" ->
            Started(generateForeword(extractedText, key, table), extractedText)
      [] type = "analysis" ->
            Started(generateAnalysis(extractedText, key, table), extractedText)
      [] OTHER -> Rejected(type, extractedText, UnsupportedType)

\* Mutant: only the type field is checked for presence.
handler_NoTextCheck(method, type, extractedText, key, table) ==
    IF method # "POST" THEN Rejected(type, extractedText, MethodNotAllowed)
    ELSE IF type = "" THEN Rejected(type, extractedText, MissingFields)
    ELSE Dispatch(type, extractedText, key, table)

\* handler(req, res) up to its first await; an absent body field is the
\* empty string.
handler(method, type, extractedText, key, table) ==
    IF method # "POST" THEN Rejected(type, extractedText, MethodNotAllowed)
    ELSE IF type = "" \/ extractedText = ""
    THEN Rejected(type, extractedText, MissingFields)
    ELSE Dispatch(type, extractedText, key, table)

\* The handler of the endpoint that records a log (part_011): the same
\* checks and the same switch, up to its first await.
handlerWithLog(method, type, extractedText, key, table) ==
    [handler(method, type, extractedText, key, table)
        EXCEPT !.via = "handlerWithLog"]

\* That handler once the generation function it awaits has ended: it calls
\* recordLog and awaits it, or answers 500 from its catch.
handlerWithLogResume(call) ==
    IF call.via # "handlerWithLog" \/ call.pc # "done" THEN call
    ELSE IF call.outcome.kind = "returned"
    THEN [call EXCEPT !.pc = "logging", !.logAttempts = @ + 1]
    ELSE [call EXCEPT !.http = InternalError,
                      !.logged = Append(@, call.outcome.message)]

LogDescription(type) == "Generated " \o type \o " content successfully."

\* What db.insert(...).values(...).returning() settles with: the row was
\* inserted, or the insert was rejected with an error.
Inserted == [ok |-> TRUE, error |-> ""]
InsertFailed(error) == [ok |-> FALSE, error |-> error]

\* The values recordLog inserts: metadata || null.
LogValues(userId, actionType, description, metadata) ==
    [user_id |-> userId, action_type |-> actionType,
     description |-> description,
     metadata |-> IF JsTruthy(metadata) THEN metadata ELSE JNull]

\* recordLog(userId, actionType, description, metadata): the row inserted,
\* or, when the insert fails, the error its catch logs and the error it
\* throws.
recordLog(userId, actionType, description, metadata, d, inserted) ==
    IF inserted.ok
    THEN LET row == [log_id |-> d.nextId] @@
                    LogValues(userId, actionType, description, metadata)
         IN  [threw |-> FALSE, error |-> "", logged |-> <<>>, value |-> row,
              db |-> [d EXCEPT !.Logs = @ \cup {row}, !.nextId = @ + 1]]
    ELSE [threw |-> TRUE, error |-> "Unable to record log entry.",
          logged |-> <<inserted.error>>, value |-> JUndefined, db |-> d]

\* Mutant: recordLog is awaited in the outer try only.
handlerAfterLog_NoInnerTry(call, log) ==
    IF log.threw
    THEN [call EXCEPT !.pc = "done", !.http = InternalError,
                      !.logged = Append(@ \o log.logged, log.error)]
    ELSE [call EXCEPT !.pc = "done", !.http = Success(call.outcome.value)]

\* The handler once recordLog has ended: the inner catch logs the error of
\* recordLog, and the response is sent.
handlerAfterLog(call, log) ==
    [call EXCEPT !.pc = "done", !.http = Success(call.outcome.value),
                 !.logged = IF log.threw
                            THEN Append(@ \o log.logged, log.error)
                            ELSE @]

-----------------------------------------------------------------------------
(* The inputs the model draws.                                             *)

CallIds == {1}

\* The six recognized types and one that is not.
BogusType == "bogus-type"
Types == GenerationTypes \cup {BogusType}

Texts == {"", "Test extracted text", "A story about a detective."}

Methods == {"POST", "GET"}

\* Texts the upstream generates (non-empty).
GeneratedTexts ==
    {"Generated content text", "  padded text \n", CategoriesJson}

\* Success bodies that carry no usable generated text.
MalformedData ==
    { JNull,
      EmptyObject,
      JObj([choices |-> JNull]),
      JObj([choices |-> JArr(<<>>)]),
      JObj([choices |-> JArr(<<JNull>>)]),
      JObj([choices |-> JArr(<<EmptyObject>>)]),
      JObj([choices |-> JArr(<<JObj([message |-> JNull])>>)]),
      JObj([choices |-> JArr(<<JObj([message |-> EmptyObject])>>)]),
      Completion(JNull),
      Completion(JStr("")) }

\* Success bodies whose content is truthy but not a string.
NonTextData == { Completion(JNum(Dec(42, 0))), Completion(JArr(<<>>)) }

ErrorResponses ==
    { ErrorResponse(401, "{\"error\":{\"message\":\"Incorrect API key provided\"}}"),
      ErrorResponse(429, "Rate limit reached"),
      ErrorResponse(500, "Error details"),
      ErrorResponse(500, "") }

FetchResults ==
    {FetchRejected, UnparsableResponse}
        \cup ErrorResponses
        \cup {OkResponse(d) : d \in MalformedData \cup NonTextData}
        \cup {OkResponse(Completion(JStr(g))) : g \in GeneratedTexts}

\* process.env.OPENAI_API_KEY: not set, set to the empty string, set.
TestKey == <<"s", "k">>
KeyValues == {Undefined, StringVal(<<>>), StringVal(TestKey)}

BaseEnv(k) == [n \in EnvNames |-> IF n = "OPENAI_API_KEY" THEN k ELSE Undefined]

\* Every string over Alphabet of length at most MaxLen.
OverrideStrings == UNION {[1..n -> Alphabet] : n \in 0..MaxLen}

\* Override values of the main specification: a valid decimal, a valid
\* integer and a string that is no number.
SampleOverrides == {<<"0", ".", "3">>, <<"3", "0">>, <<"a">>}

Envs(keys, strings) ==
    {BaseEnv(k) : k \in keys}
        \cup {[BaseEnv(k) EXCEPT ![n] = StringVal(s)] :
                k \in keys, n \in OverrideNames, s \in strings}

-----------------------------------------------------------------------------
(* Tokens: backend/services/authService.ts and the jsonwebtoken calls it   *)
(* makes.  A string that may hold a token is a sequence of pieces: a       *)
(* blank, a word without blanks, or a signed token.  The signature of a    *)
(* token names the secret and the claims it was computed over.             *)

NotSet == [set |-> FALSE, v |-> ""]
SetTo(s) == [set |-> TRUE, v |-> s]

\* process.env.JWT_SECRET || 'default_jwt_secret'
LoadJwtSecret(x) == IF x.set /\ x.v # "" THEN x.v ELSE "default_jwt_secret"

Sp == [kind |-> "space"]
Word(s) == [kind |-> "word", s |-> s]
Jwt(claims, key) ==
    [kind |-> "jwt", claims |-> claims, sig |-> [key |-> key, claims |-> claims]]

\* JSON.parse(JSON.stringify(o)) of a flat object: a property that is
\* undefined is left out, a number that is NaN becomes null.
JsonValue(v) == IF v.t = "number" THEN JsonNumber(v.n) ELSE v
JsonObject(o) ==
    [k \in {f \in DOMAIN o : o[f].t # "undefined"} |-> JsonValue(o[k])]

NumericDate(n) == JNum(Dec(n, 0))
Seconds(v) == v.n.mant

\* The time span of an expiresIn string, in seconds.
Timespan(expiresIn) ==
    CASE expiresIn = "1h" -> 60 * 60
      [] expiresIn = "30m" -> 30 * 60

ExpAlreadySet ==
    "Bad \"options.expiresIn\" option the payload already has an \"exp\" property."

\* The claims of a payload that jwt.sign requires to be numbers.
NumericClaims == {"iat", "exp", "nbf"}
ShouldBeNumber(claim) == "\"" \o claim \o "\" should be a number of seconds"

\* jwt.sign(payload, secret, { expiresIn }) at time t.  The payload is
\* validated (iat, exp and nbf, where present, are numbers), a payload
\* with exp is refused because expiresIn is given, and the token is stamped:
\* iat is the iat of the payload, or the clock when that is absent, 0 or
\* NaN, and exp is counted from it.
sign(payload, secret, expiresIn, t) ==
    LET invalid == {f \in NumericClaims \cap DOMAIN payload :
                       payload[f].t # "number"}
    IN  IF invalid # {}
        THEN [threw |-> TRUE,
              error |-> ShouldBeNumber(IF "iat" \in invalid THEN "iat"
                                       ELSE IF "exp" \in invalid THEN "exp"
                                       ELSE "nbf"),
              value |-> <<>>]
        ELSE IF "exp" \in DOMAIN payload
        THEN [threw |-> TRUE, error |-> ExpAlreadySet, value |-> <<>>]
        ELSE LET timestamp ==
                     IF "iat" \in DOMAIN payload /\ JsTruthy(payload["iat"])
                     THEN Seconds(payload["iat"]) ELSE t
                 stamps == [iat |-> NumericDate(timestamp),
                            exp |-> NumericDate(timestamp
                                                   + Timespan(expiresIn))]
             IN  [threw |-> FALSE, error |-> "",
                  value |-> <<Jwt(stamps @@ JsonObject(payload), secret)>>]

\* The nbf claim of a decoded token stands against its use at time t: it
\* is no number, or it lies ahead.
NotBefore(claims, t) ==
    IF "nbf" \notin DOMAIN claims THEN ""
    ELSE IF claims["nbf"].t # "number" THEN "JsonWebTokenError"
    ELSE IF Seconds(claims["nbf"]) > t THEN "NotBeforeError"
    ELSE ""

\* Mutant: the token is decoded, its signature is not checked.
verify_DecodesOnly(token, secret, t) ==
    IF Len(token) # 1 \/ token[1].kind # "jwt"
    THEN [threw |-> TRUE, error |-> "JsonWebTokenError", value |-> JUndefined]
    ELSE IF NotBefore(token[1].claims, t) # ""
    THEN [threw |-> TRUE, error |-> NotBefore(token[1].claims, t),
          value |-> JUndefined]
    ELSE IF t >= Seconds(token[1].claims["exp"])
    THEN [threw |-> TRUE, error |-> "TokenExpiredError", value |-> JUndefined]
    ELSE [threw |-> FALSE, error |-> "", value |-> JObj(token[1].claims)]

\* jwt.verify(token, secret) at time t: the signature, then nbf, then exp.
verify(token, secret, t) ==
    IF Len(token) # 1 \/ token[1].kind # "jwt"
    THEN [threw |-> TRUE, error |-> "JsonWebTokenError", value |-> JUndefined]
    ELSE IF token[1].sig # [key |-> secret, claims |-> token[1].claims]
    THEN [threw |-> TRUE, error |-> "JsonWebTokenError", value |-> JUndefined]
    ELSE IF NotBefore(token[1].claims, t) # ""
    THEN [threw |-> TRUE, error |-> NotBefore(token[1].claims, t),
          value |-> JUndefined]
    ELSE IF t >= Seconds(token[1].claims["exp"])
    THEN [threw |-> TRUE, error |-> "TokenExpiredError", value |-> JUndefined]
    ELSE [threw |-> FALSE, error |-> "", value |-> JObj(token[1].claims)]

generateToken(payload, expiresIn, secret, t) ==
    sign(payload, secret, expiresIn, t)

verifyToken(token, secret, t) == verify(token, secret, t)

\* str.split(' '): the parts of a string between its blanks.
RECURSIVE Split(_)
Split(str) ==
    LET blanks == {i \in 1..Len(str) : str[i] = Sp}
    IN  IF blanks = {} THEN <<str>>
        ELSE LET i == CHOOSE j \in blanks : \A k \in blanks : j <= k
             IN  <<SubSeq(str, 1, i - 1)>> \o Split(SubSeq(str, i + 1, Len(str)))

\* A request header: absent, or a string.
NoHeader == [set |-> FALSE, v |-> <<>>]
Header(str) == [set |-> TRUE, v |-> str]

MissingAuthorization == "Autorizzazione mancante. Effettua il login."
TokenNotProvided == "Token non fornito."
InvalidOrExpiredToken == "Token non valido o scaduto."

\* The last operation on tokens.
NoOp == [op |-> "none"]

\* withAuth answered 401 before it reached the handler.
Unauthorized(header, behaviour, t, error) ==
    [op |-> "withAuth", header |-> header, behaviour |-> behaviour, at |-> t,
     status |-> 401, error |-> error, ran |-> 0, user |-> JUndefined]

\* req.user as withAuth sets it from the decoded token.
UserOf(decoded) ==
    JObj([user_id |-> Get(decoded, "user_id"),
          username |-> Get(decoded, "username"),
          email |-> Get(decoded, "email")])

\* withAuth called the handler with req.user set.  A handler that throws is
\* caught by the try of withAuth; the rejection of an asynchronous handler
\* is not (the promise is returned, not awaited) and no response is sent by
\* withAuth.
HandlerRan(header, behaviour, t, decoded) ==
    [op |-> "withAuth", header |-> header, behaviour |-> behaviour, at |-> t,
     status |-> CASE behaviour = "responds" -> 200
                  [] behaviour = "throws" -> 401
                  [] behaviour = "rejects" -> 0,
     error |-> IF behaviour = "throws" THEN InvalidOrExpiredToken ELSE "",
     ran |-> 1, user |-> UserOf(decoded)]

\* Mutant: the token is the last part of the header.
withAuth_TakesLastPart(header, behaviour, secret, t) ==
    IF ~header.set \/ header.v = <<>>
    THEN Unauthorized(header, behaviour, t, MissingAuthorization)
    ELSE LET parts == Split(header.v)
         IN  IF parts[Len(parts)] = <<>>
             THEN Unauthorized(header, behaviour, t, TokenNotProvided)
             ELSE LET decoded == verifyToken(parts[Len(parts)], secret, t)
                  IN  IF decoded.threw
                      THEN Unauthorized(header, behaviour, t,
                                        InvalidOrExpiredToken)
                      ELSE HandlerRan(header, behaviour, t, decoded.value)

\* The handler that withAuth(handler) returns, called with a request whose
\* Authorization header is `header`; `behaviour` is what the wrapped handler
\* does when it is called.
withAuth(header, behaviour, secret, t) ==
    IF ~header.set \/ header.v = <<>>
    THEN Unauthorized(header, behaviour, t, MissingAuthorization)
    ELSE LET parts == Split(header.v)
         IN  IF Len(parts) < 2 \/ parts[2] = <<>>
             THEN Unauthorized(header, behaviour, t, TokenNotProvided)
             ELSE LET decoded == verifyToken(parts[2], secret, t)
                  IN  IF decoded.threw
                      THEN Unauthorized(header, behaviour, t,
                                        InvalidOrExpiredToken)
                      ELSE HandlerRan(header, behaviour, t, decoded.value)

\* No token issued yet, no operation done.
NoIssue == [token |-> <<>>, payload |-> [k \in {} |-> JUndefined],
            expiresIn |-> "", at |-> 0]
NoAuth == [issued |-> NoIssue, last |-> NoOp]

-----------------------------------------------------------------------------
(* The database.  Two schemas are in the repository: the migration of      *)
(* drizzle, whose Users table has no unique constraint, and                *)
(* supabase/schema.sql, whose username and email columns are UNIQUE.       *)

Schemas == {"drizzle", "supabase"}

EmptyDb(schema) ==
    [schema |-> schema, Users |-> {}, Files |-> {}, SessionHistory |-> {},
     Logs |-> {}, nextId |-> 1]

\* A request slot that has received no request.
NoReq == [pc |-> "idle"]
NoReqs == [r \in {} |-> NoReq]

\* bcrypt.hash(password, SALT_ROUNDS) and bcrypt.compare(password, hash).
hashPassword(password) == [bcrypt |-> password]
comparePassword(password, hashedPassword) ==
    hashedPassword = [bcrypt |-> password]

\* The response of an endpoint.
Response(status, message, error, data) ==
    [status |-> status, message |-> message, error |-> error, data |-> data]

NoResponse == Response(0, "", "", JUndefined)

-----------------------------------------------------------------------------
(* pages/api/auth/register.ts                                              *)

RegisterMethodNotAllowed ==
    Response(405, "", "Metodo non consentito. Utilizzare POST.", JUndefined)
RegisterMissingFields ==
    Response(400, "",
             "Campi \"username\", \"email\" e \"password\" sono obbligatori.",
             JUndefined)
EmailTaken == Response(409, "", "Email già registrata.", JUndefined)
UsernameTaken == Response(409, "", "Username già in uso.", JUndefined)
RegisterInternalError ==
    Response(500, "", "Errore interno del server durante la registrazione.",
             JUndefined)
Registered(user, token) ==
    Response(201, "Registrazione avvenuta con successo.", "",
             [user_id |-> user.user_id, username |-> user.username,
              email |-> user.email, token |-> token])

\* A request to the register endpoint, at one of its awaits or answered.
RegisterReq(pc, method, body, response) ==
    [kind |-> "register", pc |-> pc, method |-> method, body |-> body,
     hashedPassword |-> JUndefined, response |-> response]

\* The handler up to its first query.
register(method, body) ==
    IF method # "POST"
    THEN RegisterReq("done", method, body, RegisterMethodNotAllowed)
    ELSE IF body.username = "" \/ body.email = "" \/ body.password = ""
    THEN RegisterReq("done", method, body, RegisterMissingFields)
    ELSE RegisterReq("selectEmail", method, body, NoResponse)

\* db.select().from(Users).where(eq(Users.email, email)) has settled;
\* available: the database answered.
registerAfterEmail(req, Users, available) ==
    IF ~available
    THEN [req EXCEPT !.pc = "done", !.response = RegisterInternalError]
    ELSE IF \E u \in Users : u.email = req.body.email
    THEN [req EXCEPT !.pc = "done", !.response = EmailTaken]
    ELSE [req EXCEPT !.pc = "selectUsername"]

\* db.select().from(Users).where(eq(Users.username, username)) has settled;
\* the handler goes on to hash the password.
registerAfterUsername(req, Users, available) ==
    IF ~available
    THEN [req EXCEPT !.pc = "done", !.response = RegisterInternalError]
    ELSE IF \E u \in Users : u.username = req.body.username
    THEN [req EXCEPT !.pc = "done", !.response = UsernameTaken]
    ELSE [req EXCEPT !.pc = "hash"]

\* hashPassword(password) has settled; hashed: bcrypt gave the hash.  The
\* handler goes on to insert the user, or answers 500 from its catch.
registerAfterHash(req, hashed) ==
    IF hashed
    THEN [req EXCEPT !.pc = "insert",
                     !.hashedPassword = hashPassword(req.body.password)]
    ELSE [req EXCEPT !.pc = "done", !.response = RegisterInternalError]

\* The INSERT violates a UNIQUE constraint of the schema.
ViolatesUnique(d, username, email) ==
    /\ d.schema = "supabase"
    /\ \E u \in d.Users : u.username = username \/ u.email = email

\* The insert of the user has settled; available: the database answered.
\* The handler answers 201 with a token, or 500 when the insert is refused
\* or failed.  The result is the request and the database after it.
registerInsert(req, d, secret, t, available) ==
    IF ~available \/ ViolatesUnique(d, req.body.username, req.body.email)
    THEN [req |-> [req EXCEPT !.pc = "done",
                              !.response = RegisterInternalError],
          db |-> d]
    ELSE LET user == [user_id |-> d.nextId, username |-> req.body.username,
                      email |-> req.body.email,
                      hashed_password |-> req.hashedPassword]
             token == generateToken(
                          [user_id |-> JStr(ToString(user.user_id)),
                           username |-> JStr(user.username),
                           email |-> JStr(user.email)],
                          "1h", secret, t)
         IN  [req |-> [req EXCEPT !.pc = "done",
                                  !.response = Registered(user, token.value)],
              db |-> [d EXCEPT !.Users = @ \cup {user}, !.nextId = @ + 1]]

\* What the text-extraction library does with a buffer: its promise resolves
\* with an object or rejects with an error.
Resolved(object) == [kind |-> "resolved", value |-> object, message |-> ""]
LibraryFailed(message) ==
    [kind |-> "rejected", value |-> JUndefined, message |-> message]

DocxFailure == "Impossibile estrarre il testo dal file DOCX."
PdfFailure == "Impossibile estrarre il testo dal file PDF."

\* parseDocx(fileBuffer), given what mammoth.extractRawText does with the
\* buffer.
parseDocx(library) ==
    IF library.kind = "resolved"
    THEN Returned(Get(library.value, "value"))
    ELSE Threw(DocxFailure)

\* Mutant: the error of the library is thrown on.
parsePdf_Rethrows(library) ==
    IF library.kind = "resolved"
    THEN Returned(Get(library.value, "text"))
    ELSE Threw(library.message)

\* parsePdf(fileBuffer), given what pdfParse does with the buffer.
parsePdf(library) ==
    IF library.kind = "resolved"
    THEN Returned(Get(library.value, "text"))
    ELSE Threw(PdfFailure)


\* The responses of the session endpoint.
SessionMissingFields ==
    Response(400, "",
             "Campi \"file_id\" e \"actions\" sono obbligatori per creare una sessione.",
             JUndefined)
SessionRecorded(record) ==
    Response(200, "Sessione registrata con successo.", "",
             [session |-> record])
SessionRecordError ==
    Response(500, "",
             "Errore interno del server durante la registrazione della sessione.",
             JUndefined)
SessionsRetrieved(records) ==
    Response(200, "Sessione recuperata con successo.", "",
             [sessions |-> records])
SessionRetrieveError ==
    Response(500, "",
             "Errore interno del server durante il recupero della sessione.",
             JUndefined)
SessionMethodNotAllowed ==
    Response(405, "", "Metodo non consentito. Utilizzare GET o POST.",
             JUndefined)

\* A request to the session endpoint: `who` names the sender, userId is the
\* id the handler passes to the service.
SessionReq(pc, method, body, who, userId, response) ==
    [kind |-> "session", pc |-> pc, method |-> method, body |-> body,
     who |-> who, userId |-> userId, response |-> response]

\* Mutant: the user id is read from the request body when it has one.
sessionHandler_UserIdFromBody(method, body, who, user) ==
    LET userId == IF body.user_id.t # "undefined" THEN body.user_id
                  ELSE Get(user, "user_id")
    IN  IF method = "POST"
        THEN IF body.file_id = "" \/ body.actions = ""
             THEN SessionReq("done", method, body, who, userId,
                             SessionMissingFields)
             ELSE SessionReq("insert", method, body, who, userId, NoResponse)
        ELSE IF method = "GET"
        THEN SessionReq("select", method, body, who, userId, NoResponse)
        ELSE SessionReq("done", method, body, who, userId,
                        SessionMethodNotAllowed)

\* The session handler up to its first await; user is req.user as withAuth
\* set it.
sessionHandler(method, body, who, user) ==
    LET userId == Get(user, "user_id")
    IN  IF method = "POST"
        THEN IF body.file_id = "" \/ body.actions = ""
             THEN SessionReq("done", method, body, who, userId,
                             SessionMissingFields)
             ELSE SessionReq("insert", method, body, who, userId, NoResponse)
        ELSE IF method = "GET"
        THEN SessionReq("select", method, body, who, userId, NoResponse)
        ELSE SessionReq("done", method, body, who, userId,
                        SessionMethodNotAllowed)

\* withAuth(handler) of the session endpoint.
session(method, body, who, header, secret, t) ==
    LET a == withAuth(header, "responds", secret, t)
    IN  IF a.ran = 0
        THEN SessionReq("done", method, body, who, JUndefined,
                        Response(a.status, "", a.error, JUndefined))
        ELSE sessionHandler(method, body, who, a.user)

\* recordSessionHistory(userId, fileId, actions): the inserted record, or
\* the error thrown when the insert fails.
recordSessionHistory(userId, fileId, actions, d, inserted) ==
    IF inserted
    THEN LET record == [session_id |-> d.nextId, user_id |-> userId,
                        file_id |-> fileId, actions |-> actions]
         IN  [threw |-> FALSE, error |-> "", value |-> record,
              db |-> [d EXCEPT !.SessionHistory = @ \cup {record},
                               !.nextId = @ + 1]]
    ELSE [threw |-> TRUE, error |-> "Unable to record session history.",
          value |-> JUndefined, db |-> d]

\* getSessionHistory(userId): the records of that user, or the error thrown
\* when the query fails.
getSessionHistory(userId, d, selected) ==
    IF selected
    THEN [threw |-> FALSE, error |-> "",
          value |-> {s \in d.SessionHistory : s.user_id = userId}]
    ELSE [threw |-> TRUE, error |-> "Unable to retrieve session history.",
          value |-> {}]

\* The POST branch once recordSessionHistory has ended.
sessionAfterInsert(req, result) ==
    [req EXCEPT !.pc = "done",
                !.response = IF result.threw THEN SessionRecordError
                             ELSE SessionRecorded(result.value)]

\* The GET branch once getSessionHistory has ended.
sessionAfterSelect(req, result) ==
    [req EXCEPT !.pc = "done",
                !.response = IF result.threw THEN SessionRetrieveError
                             ELSE SessionsRetrieved(result.value)]


\* A text is a sequence of characters.  \s of a regular expression and
\* String.prototype.trim know the same white space; of it the texts here
\* hold the blank and the newline.
WhiteSpace == {" ", "\n"}
SentenceEnd == {".", "!", "?"}

\* str.trim()
RECURSIVE trim(_)
trim(str) ==
    IF str = <<>> THEN str
    ELSE IF str[1] \in WhiteSpace THEN trim(Tail(str))
    ELSE IF str[Len(str)] \in WhiteSpace
    THEN trim(SubSeq(str, 1, Len(str) - 1))
    ELSE str

\* str.split(/[separators]+/): the pieces of str between its longest runs
\* of separators; a run at either end leaves an empty piece there.
RECURSIVE SplitRuns(_, _)
SplitRuns(str, separators) ==
    LET at == {i \in 1..Len(str) : str[i] \in separators}
    IN  IF at = {} THEN <<str>>
        ELSE LET i == CHOOSE k \in at : \A l \in at : k <= l
                 after == {k \in i..Len(str) : str[k] \notin separators}
                 j == IF after = {} THEN Len(str) + 1
                      ELSE CHOOSE k \in after : \A l \in after : k <= l
             IN  <<SubSeq(str, 1, i - 1)>>
                    \o SplitRuns(SubSeq(str, j, Len(str)), separators)

\* words.reduce((acc, word) => acc + word.length, 0)
RECURSIVE TotalLength(_)
TotalLength(words) ==
    IF words = <<>> THEN 0 ELSE Len(words[1]) + TotalLength(Tail(words))

\* The quotient of two integers that `/` gives, as a fraction in lowest
\* terms.
RECURSIVE Gcd(_, _)
Gcd(a, b) == IF b = 0 THEN a ELSE Gcd(b, a % b)
Quotient(n, d) == [num |-> n \div Gcd(n, d), den |-> d \div Gcd(n, d)]
Zero == [num |-> 0, den |-> 1]

\* The tests of the two filters.
NonEmpty(word) == Len(word) > 0
NonBlank(sentence) == Len(trim(sentence)) > 0

\* Mutant: the characters are counted before the text is trimmed.
analyzeDocument_CountsUntrimmed(extractedText) ==
    LET text == trim(extractedText)
    IN  IF text = <<>>
        THEN [wordCount |-> 0, characterCount |-> 0, sentenceCount |-> 0,
              averageWordLength |-> Zero]
        ELSE LET words == SelectSeq(SplitRuns(text, WhiteSpace), NonEmpty)
                 wordCount == Len(words)
                 totalWordLength == TotalLength(words)
                 sentences == SelectSeq(SplitRuns(text, SentenceEnd), NonBlank)
             IN  [wordCount |-> wordCount,
                  characterCount |-> Len(extractedText),
                  sentenceCount |-> Len(sentences),
                  averageWordLength |->
                      IF wordCount > 0
                      THEN Quotient(totalWordLength, wordCount) ELSE Zero]

\* analyzeDocument(extractedText)
analyzeDocument(extractedText) ==
    LET text == trim(extractedText)
    IN  IF text = <<>>
        THEN [wordCount |-> 0, characterCount |-> 0, sentenceCount |-> 0,
              averageWordLength |-> Zero]
        ELSE LET characterCount == Len(text)
                 words == SelectSeq(SplitRuns(text, WhiteSpace), NonEmpty)
                 wordCount == Len(words)
                 totalWordLength == TotalLength(words)
                 sentences == SelectSeq(SplitRuns(text, SentenceEnd), NonBlank)
             IN  [wordCount |-> wordCount,
                  characterCount |-> characterCount,
                  sentenceCount |-> Len(sentences),
                  averageWordLength |->
                      IF wordCount > 0
                      THEN Quotient(totalWordLength, wordCount) ELSE Zero]


\* File validation, in the browser and on the server.
DocxMime ==
    "application/vnd.openxmlformats-officedocument.wordprocessingml.document"
PdfMime == "application/pdf"
allowedMimeTypes == <<DocxMime, PdfMime>>

MB == 1024 * 1024
MaxFileSize == 30 * 1024 * 1024

\* array.includes(value)
Includes(array, value) == \E i \in 1..Len(array) : array[i] = value

\* value || other, for a value that is a string or null
OrElse(value, other) ==
    IF value.t = "string" /\ value.s # "" THEN value.s ELSE other

\* `Il file supera il limite di ${max / (1024 * 1024)}MB.`, for a limit of
\* whole megabytes.
SizeError(max) == "Il file supera il limite di " \o ToString(max \div MB) \o "MB."

\* validateFile(file) of the FileUploader component with its props maxSize
\* and allowedTypes; error is what setError was called with.
validateFile(file, maxSize, allowedTypes) ==
    IF file.size > maxSize
    THEN [valid |-> FALSE, error |-> SizeError(maxSize)]
    ELSE IF ~Includes(allowedTypes, file.type)
    THEN [valid |-> FALSE, error |-> "Tipo di file non supportato."]
    ELSE [valid |-> TRUE, error |-> ""]

\* Mutant: a file of exactly the limit is refused.
validateUploadedFile_LimitExcluded(file, maxFileSize) ==
    IF file.size >= maxFileSize
    THEN [valid |-> FALSE, error |-> SizeError(maxFileSize)]
    ELSE IF ~Includes(allowedMimeTypes, OrElse(file.mimetype, ""))
    THEN [valid |-> FALSE,
          error |-> "Tipo di file non supportato. Carica solo DOCX o PDF."]
    ELSE [valid |-> TRUE, error |-> ""]

\* validateUploadedFile(file, maxFileSize); error "" is no error.
validateUploadedFile(file, maxFileSize) ==
    IF file.size > maxFileSize
    THEN [valid |-> FALSE, error |-> SizeError(maxFileSize)]
    ELSE IF ~Includes(allowedMimeTypes, OrElse(file.mimetype, ""))
    THEN [valid |-> FALSE,
          error |-> "Tipo di file non supportato. Carica solo DOCX o PDF."]
    ELSE [valid |-> TRUE, error |-> ""]


\* A file name is the sequence of its words and dots.  path.extname(name):
\* from the last dot to the end, and nothing when there is no dot, the
\* last dot is the first character, or the name is "..".
extname(name) ==
    LET dots == {i \in 1..Len(name) : name[i] = "."}
    IN  IF dots = {} THEN <<>>
        ELSE LET last == CHOOSE i \in dots : \A k \in dots : k <= i
             IN  IF last = 1 \/ name = <<".", ".">> THEN <<>>
                 ELSE SubSeq(name, last, Len(name))

\* str.toLowerCase(), for the words the file names here are made of.
toLowerCase(str) ==
    [i \in 1..Len(str) |->
        CASE str[i] = "DOCX" -> "docx"
          [] str[i] = "PDF" -> "pdf"
          [] str[i] = "Docx" -> "docx"
          [] OTHER -> str[i]]

\* getFileExtension(file); a name that is null or empty is <<>>.
getFileExtension(file) == toLowerCase(extname(file.originalFilename))

\* The responses of the upload endpoint.
UploadMethodNotAllowed ==
    Response(405, "", "Metodo non consentito. Utilizzare POST.", JUndefined)
NoFileUploaded == Response(400, "", "Nessun file caricato.", JUndefined)
InvalidFile(error) == Response(400, "", error, JUndefined)
UnsupportedExtension ==
    Response(400, "", "Estensione file non supportata.", JUndefined)
Uploaded(fileRecord, extractedText, technicalAnalysis) ==
    Response(200, "File caricato e processato con successo.", "",
             [file |-> fileRecord, extractedText |-> extractedText,
              technicalAnalysis |-> technicalAnalysis])

\* An error thrown inside the handler; statusCode 0 is none.
Error(message) == [statusCode |-> 0, message |-> message]

\* The catch of withErrorHandling.
withErrorHandling(error) ==
    Response(IF error.statusCode # 0 THEN error.statusCode ELSE 500, "",
             IF error.message # "" THEN error.message
             ELSE "Errore interno del server.",
             JUndefined)

\* The error of fs.readFileSync for a path that holds no file.
NoSuchFile == Error("ENOENT: no such file or directory, open '/tmp/upload_1'")

\* What formidable makes of the request: the files it parsed, or an error.
FormParsed(hasFile) == [kind |-> "parsed", hasFile |-> hasFile,
                        error |-> Error("")]
FormRejected(error) == [kind |-> "rejected", hasFile |-> FALSE,
                        error |-> error]

\* A request to the upload endpoint: uploadedFile tells whether the form
\* held a file, parser is the function the handler awaits, extracted its
\* outcome.
UploadReq(pc, method, who, userId, file, response) ==
    [kind |-> "upload", pc |-> pc, method |-> method, who |-> who,
     userId |-> userId, file |-> file, uploadedFile |-> FALSE,
     ext |-> <<>>, parser |-> "none", extracted |-> Pending,
     response |-> response]

\* withAuth(withErrorHandling(handler)) up to `await parseForm(req)`.
upload(method, who, file, header, secret, t) ==
    LET a == withAuth(header, "responds", secret, t)
    IN  IF a.ran = 0
        THEN UploadReq("done", method, who, JUndefined, file,
                       Response(a.status, "", a.error, JUndefined))
        ELSE IF method # "POST"
        THEN UploadReq("done", method, who, Get(a.user, "user_id"), file,
                       UploadMethodNotAllowed)
        ELSE UploadReq("parseForm", method, who, Get(a.user, "user_id"),
                       file, NoResponse)

\* Mutant: the file is not validated before it is parsed.
uploadAfterForm_NoValidation(req, form, readable) ==
    IF form.kind = "rejected"
    THEN [req EXCEPT !.pc = "done", !.response = withErrorHandling(form.error)]
    ELSE IF ~form.hasFile
    THEN [req EXCEPT !.pc = "done", !.response = NoFileUploaded]
    ELSE LET ext == getFileExtension(req.file)
             held == [req EXCEPT !.uploadedFile = TRUE]
         IN  IF ~readable
             THEN [held EXCEPT !.pc = "done", !.ext = ext,
                               !.response = withErrorHandling(NoSuchFile)]
             ELSE IF ext = <<".", "docx">>
             THEN [held EXCEPT !.pc = "parsing", !.ext = ext,
                               !.parser = "parseDocx"]
             ELSE IF ext = <<".", "pdf">>
             THEN [held EXCEPT !.pc = "parsing", !.ext = ext,
                               !.parser = "parsePdf"]
             ELSE [held EXCEPT !.pc = "done", !.ext = ext,
                               !.response = UnsupportedExtension]

\* The handler from the end of parseForm to the parser it awaits;
\* readable: fs.readFileSync(uploadedFile.filepath) returned the bytes.
uploadAfterForm(req, form, readable) ==
    IF form.kind = "rejected"
    THEN [req EXCEPT !.pc = "done", !.response = withErrorHandling(form.error)]
    ELSE IF ~form.hasFile
    THEN [req EXCEPT !.pc = "done", !.response = NoFileUploaded]
    ELSE LET validationResult == validateUploadedFile(req.file, MaxFileSize)
             ext == getFileExtension(req.file)
             held == [req EXCEPT !.uploadedFile = TRUE]
         IN  IF ~validationResult.valid
             THEN [held EXCEPT !.pc = "done",
                               !.response = InvalidFile(validationResult.error)]
             ELSE IF ~readable
             THEN [held EXCEPT !.pc = "done", !.ext = ext,
                               !.response = withErrorHandling(NoSuchFile)]
             ELSE IF ext = <<".", "docx">>
             THEN [held EXCEPT !.pc = "parsing", !.ext = ext,
                               !.parser = "parseDocx"]
             ELSE IF ext = <<".", "pdf">>
             THEN [held EXCEPT !.pc = "parsing", !.ext = ext,
                               !.parser = "parsePdf"]
             ELSE [held EXCEPT !.pc = "done", !.ext = ext,
                               !.response = UnsupportedExtension]

\* The handler once the parser has ended: a parser that threw is answered
\* by withErrorHandling, otherwise the insert is awaited.
uploadAfterParse(req, extracted) ==
    IF extracted.kind = "threw"
    THEN [req EXCEPT !.pc = "done", !.extracted = extracted,
                     !.response = withErrorHandling(Error(extracted.message))]
    ELSE [req EXCEPT !.pc = "insert", !.extracted = extracted]

FileTypeLength == 50

\* The row of the insert into Files.
FileValues(req) ==
    [user_id |-> req.userId,
     file_name |-> IF req.file.originalFilename # <<>>
                   THEN req.file.originalFilename ELSE <<"Unknown">>,
     file_type |-> OrElse(req.file.mimetype, "Unknown"),
     file_size |-> req.file.size,
     storage_path |-> req.file.filepath,
     processing_status |-> "complete"]

\* A text PostgreSQL reads as a uuid: of the texts here, those of 36
\* characters.
IsUuid(s) == Len(s) = 36

\* The Files table takes the row: user_id is a uuid, file_type is
\* varchar(50).
FitsFiles(values) ==
    /\ values.user_id.t = "string"
    /\ IsUuid(values.user_id.s)
    /\ Len(values.file_type) <= FileTypeLength

\* The error of the insert for a row the table does not take: the user_id
\* is read as a uuid before the row is formed.
FilesRefused(values) ==
    IF values.user_id.t = "string" /\ ~IsUuid(values.user_id.s)
    THEN Error("invalid input syntax for type uuid: \""
                  \o values.user_id.s \o "\"")
    ELSE Error("value too long for type character varying(50)")

\* The handler once the insert has ended; available: the database answered.
uploadAfterInsert(req, d, available) ==
    LET values == FileValues(req)
    IN  IF ~available
        THEN [req |-> [req EXCEPT !.pc = "done",
                          !.response = withErrorHandling(
                                           Error("Connection terminated unexpectedly"))],
              db |-> d]
        ELSE IF ~FitsFiles(values)
        THEN [req |-> [req EXCEPT !.pc = "done",
                          !.response = withErrorHandling(FilesRefused(values))],
              db |-> d]
        ELSE LET fileRecord ==
                     [file_id |-> d.nextId, user_id |-> values.user_id,
                      file_name |-> values.file_name,
                      file_type |-> values.file_type,
                      file_size |-> values.file_size,
                      storage_path |-> values.storage_path,
                      processing_status |-> values.processing_status]
             IN  [req |-> [req EXCEPT !.pc = "done",
                              !.response =
                                  Uploaded(fileRecord, req.extracted.value,
                                           analyzeDocument(req.extracted.value.s))],
                  db |-> [d EXCEPT !.Files = @ \cup {fileRecord},
                                   !.nextId = @ + 1]]


\* The responses of the login endpoint.
LoginMethodNotAllowed ==
    Response(405, "", "Metodo non consentito. Utilizzare POST.", JUndefined)
LoginMissingFields ==
    Response(400, "", "Campi \"email\" e \"password\" sono obbligatori.",
             JUndefined)
InvalidCredentials == Response(401, "", "Credenziali non valide.", JUndefined)
\* The body of a login has no data key: token and user are keys of the body
\* itself.
LoggedIn(user, token) ==
    [status |-> 200, message |-> "Accesso effettuato con successo.",
     error |-> "", token |-> token,
     user |-> [user_id |-> user.user_id, username |-> user.username,
               email |-> user.email]]

\* A request to the login endpoint; user is users[0] once the query has
\* found one.
LoginReq(pc, method, body, response) ==
    [kind |-> "login", pc |-> pc, method |-> method, body |-> body,
     user |-> JUndefined, response |-> response]

\* The handler up to its query; an absent body field is the empty string.
login(method, body) ==
    IF method # "POST"
    THEN LoginReq("done", method, body, LoginMethodNotAllowed)
    ELSE IF body.email = "" \/ body.password = ""
    THEN LoginReq("done", method, body, LoginMissingFields)
    ELSE LoginReq("select", method, body, NoResponse)

\* Mutant: an unknown email has a response of its own.
loginAfterSelect_TellsUnknownEmail(req, users) ==
    IF users = <<>>
    THEN [req EXCEPT !.pc = "done",
                     !.response = Response(404, "", "Utente non trovato.",
                                           JUndefined)]
    ELSE [req EXCEPT !.pc = "compare", !.user = users[1]]

\* The handler once the query has ended with the rows `users`.
loginAfterSelect(req, users) ==
    IF users = <<>>
    THEN [req EXCEPT !.pc = "done", !.response = InvalidCredentials]
    ELSE [req EXCEPT !.pc = "compare", !.user = users[1]]

\* The handler once comparePassword has ended.
loginAfterCompare(req, secret, t) ==
    IF ~comparePassword(req.body.password, req.user.hashed_password)
    THEN [req EXCEPT !.pc = "done", !.response = InvalidCredentials]
    ELSE LET token == generateToken(
                          [user_id |-> JStr(ToString(req.user.user_id)),
                           username |-> JStr(req.user.username),
                           email |-> JStr(req.user.email)],
                          "1h", secret, t)
         IN  [req EXCEPT !.pc = "done",
                         !.response = LoggedIn(req.user, token.value)]

\* A query or comparison that failed: the error reaches withErrorHandling.
loginFailed(req, error) ==
    [req EXCEPT !.pc = "done", !.response = withErrorHandling(error)]


-----------------------------------------------------------------------------
(* pages/api/logs.ts                                                       *)

LogsRetrieved(logs) ==
    Response(200, "Logs recuperati con successo.", "", [logs |-> logs])
LogsRetrieveError ==
    Response(500, "",
             "Errore interno del server durante il recupero dei logs.",
             JUndefined)
LogsMissingFields ==
    Response(400, "",
             "Campi \"user_id\", \"action_type\" e \"description\" sono obbligatori.",
             JUndefined)
LogRecorded(log) ==
    Response(200, "Log registrato con successo.", "", [log |-> log])
LogRecordError ==
    Response(500, "",
             "Errore interno del server durante la registrazione del log.",
             JUndefined)
LogsMethodNotAllowed ==
    Response(405, "", "Metodo non consentito. Utilizzare GET o POST.",
             JUndefined)

\* A request to the logs endpoint; logged: what console.error received.
LogsReq(pc, method, body, response) ==
    [kind |-> "logs", pc |-> pc, method |-> method, body |-> body,
     response |-> response, logged |-> <<>>]

\* handler(req, res) of pages/api/logs.ts up to its first await; an absent
\* user_id, action_type or description is the empty string.  No caller is
\* authenticated.
logsHandler(method, body) ==
    IF method = "GET" THEN LogsReq("select", method, body, NoResponse)
    ELSE IF method = "POST"
    THEN IF body.user_id = "" \/ body.action_type = "" \/ body.description = ""
         THEN LogsReq("done", method, body, LogsMissingFields)
         ELSE LogsReq("insert", method, body, NoResponse)
    ELSE LogsReq("done", method, body, LogsMethodNotAllowed)

\* The rows ordered by timestamp, the latest first: the row inserted later
\* has the later timestamp and the greater log_id.
RECURSIVE LatestFirst(_)
LatestFirst(rows) ==
    IF rows = {} THEN <<>>
    ELSE LET latest == CHOOSE r \in rows : \A o \in rows : o.log_id <= r.log_id
         IN  <<latest>> \o LatestFirst(rows \ {latest})

\* The GET branch once the select has ended; selected: how the query
\* ended, with the error it rejected with.
logsAfterSelect(req, d, selected) ==
    IF selected.ok
    THEN [req EXCEPT !.pc = "done",
                     !.response = LogsRetrieved(LatestFirst(d.Logs))]
    ELSE [req EXCEPT !.pc = "done", !.response = LogsRetrieveError,
                     !.logged = <<selected.error>>]

\* The POST branch once recordLog has ended.
logsAfterInsert(req, log) ==
    IF log.threw
    THEN [req EXCEPT !.pc = "done", !.response = LogRecordError,
                     !.logged = Append(log.logged, log.error)]
    ELSE [req EXCEPT !.pc = "done", !.response = LogRecorded(log.value)]

\* The Logs table takes the row: user_id is a uuid, action_type is
\* varchar(100).
ActionTypeLength == 100
FitsLogs(values) ==
    IsUuid(values.user_id) /\ Len(values.action_type) <= ActionTypeLength


-----------------------------------------------------------------------------
(* The state machine.                                                      *)

\* The module is loaded once, with the environment of the process start.
LoadFor(e, ids) ==
    /\ env = e
    /\ OPENAI_API_KEY = LoadApiKey(e)
    /\ generationConfig = LoadGenerationConfig(e)
    /\ calls = [c \in ids |-> Idle]
    /\ JWT_SECRET = LoadJwtSecret(NotSet)
    /\ now = 0
    /\ auth = NoAuth
    /\ db = EmptyDb("drizzle")

Load(e) == LoadFor(e, CallIds) /\ reqs = NoReqs

\* A caller calls generateContent(type, extractedText).
GenerateContent(c, type, extractedText) ==
    /\ calls[c].pc = "idle"
    /\ calls' = [calls EXCEPT
                   ![c] = generateContent(type, extractedText,
                                          OPENAI_API_KEY, generationConfig)]
    /\ UNCHANGED <<env, OPENAI_API_KEY, generationConfig, authVars, dbVars>>

\* The fetch of call c settles: rejected, the call runs to its end; with a
\* response, the call goes on to read the body.
FetchSettles(c, result) ==
    /\ calls[c].pc = "awaiting"
    /\ calls' = [calls EXCEPT
                   ![c] = handlerWithLogResume(
                              handlerResume(
                                  generateContentAfterFetch(calls[c], result)))]
    /\ UNCHANGED <<env, OPENAI_API_KEY, generationConfig, authVars, dbVars>>

\* The read of the body of call c settles and the call runs to its end.
BodySettles(c, reads) ==
    /\ calls[c].pc = "reading"
    /\ calls' = [calls EXCEPT
                   ![c] = handlerWithLogResume(
                              handlerResume(
                                  generateContentAfterBody(calls[c], reads)))]
    /\ UNCHANGED <<env, OPENAI_API_KEY, generationConfig, authVars, dbVars>>

\* The generate endpoint receives a request.
Handler(c, method, type, extractedText) ==
    /\ calls[c].pc = "idle"
    /\ calls' = [calls EXCEPT
                   ![c] = handler(method, type, extractedText,
                                  OPENAI_API_KEY, generationConfig)]
    /\ UNCHANGED <<env, OPENAI_API_KEY, generationConfig, authVars, dbVars>>

\* A caller calls one of generateBlurb .. generateAnalysis.
GenerateByFunction(c, fn, extractedText) ==
    /\ calls[c].pc = "idle"
    /\ calls' = [calls EXCEPT
                   ![c] = callFunction(fn, extractedText,
                                       OPENAI_API_KEY, generationConfig)]
    /\ UNCHANGED <<env, OPENAI_API_KEY, generationConfig, authVars, dbVars>>

\* The caller has the outcome; the slot is free for the next call.
Return(c) ==
    /\ calls[c].pc = "done"
    /\ calls' = [calls EXCEPT ![c] = Idle]
    /\ UNCHANGED <<env, OPENAI_API_KEY, generationConfig, authVars, dbVars>>

Init == \E e \in Envs(KeyValues, SampleOverrides) : Load(e)

Next ==
    \/ \E c \in CallIds, type \in Types, text \in Texts :
          GenerateContent(c, type, text)
    \/ \E c \in CallIds, type \in GenerationTypes, text \in Texts :
          GenerateByFunction(c, FunctionOf(type), text)
    \/ \E c \in CallIds, method \in Methods, type \in Types \cup {""},
            text \in Texts :
          Handler(c, method, type, text)
    \/ \E c \in CallIds, result \in FetchResults : FetchSettles(c, result)
    \/ \E c \in CallIds, reads \in BOOLEAN : BodySettles(c, reads)
    \/ \E c \in CallIds : Return(c)

Spec == Init /\ [][Next]_vars

\* The earlier version of the service: its generateContent is called under
\* every setting of the key.
GenerateContentEarlier(c, type, extractedText) ==
    /\ calls[c].pc = "idle"
    /\ calls' = [calls EXCEPT
                   ![c] = generateContentEarlier(type, extractedText, env)]
    /\ UNCHANGED <<env, OPENAI_API_KEY, generationConfig, authVars, dbVars>>

InitEarlier == \E e \in {BaseEnv(k) : k \in KeyValues} : Load(e)

NextEarlier ==
    \/ \E c \in CallIds, type \in Types, text \in Texts :
          GenerateContentEarlier(c, type, text)
    \/ \E c \in CallIds, result \in FetchResults : FetchSettles(c, result)
    \/ \E c \in CallIds, reads \in BOOLEAN : BodySettles(c, reads)
    \/ \E c \in CallIds : Return(c)

SpecEarlier == InitEarlier /\ [][NextEarlier]_vars

\* The configuration table under every enumerated override string: the
\* module is loaded with one override set, then calls are made.
ConfigTexts == {"Test extracted text"}
ConfigResults == {OkResponse(Completion(JStr("Generated content text")))}

InitConfig == \E e \in Envs({StringVal(TestKey)}, OverrideStrings) : Load(e)

NextConfig ==
    \/ \E c \in CallIds, type \in GenerationTypes, text \in ConfigTexts :
          GenerateContent(c, type, text)
    \/ \E c \in CallIds, result \in ConfigResults : FetchSettles(c, result)
    \/ \E c \in CallIds, reads \in BOOLEAN : BodySettles(c, reads)
    \/ \E c \in CallIds : Return(c)

SpecConfig == InitConfig /\ [][NextConfig]_vars

\* Concurrent calls: MaxCalls calls of generateContent may be in flight at
\* once, and the process environment may be assigned after the module was
\* loaded.
MaxCalls == 2
ConcurrentIds == 1..MaxCalls
ConcurrentTypes == {"blurb", "categories", BogusType}
ConcurrentTexts == {"Test extracted text", "A story about a detective."}
ConcurrentResults ==
    {OkResponse(Completion(JStr("Generated content text"))),
     ErrorResponse(500, "Internal Server Error"),
     FetchRejected}
\* The answers of the upstream under interleaving: a completion, whose body
\* is read or fails to be read, and a failed request.
InterleavedResults ==
    {OkResponse(Completion(JStr("Generated content text"))), FetchRejected}
OtherKey == <<"n", "k">>
ConcurrentKeys == {StringVal(TestKey), StringVal(OtherKey)}
ConcurrentEnvs ==
    {BaseEnv(k) : k \in ConcurrentKeys}
        \cup {[BaseEnv(StringVal(TestKey)) EXCEPT
                 !["OPENAI_BLURB_MAX_TOKENS"] = StringVal(<<"3", "0">>)]}

\* process.env.OPENAI_API_KEY = value, by any code of the process.
SetEnv(name, value) ==
    /\ env[name] # value
    /\ env' = [env EXCEPT ![name] = value]
    /\ UNCHANGED <<OPENAI_API_KEY, generationConfig, calls, authVars, dbVars>>

InitConcurrent ==
    /\ \E e \in ConcurrentEnvs : LoadFor(e, ConcurrentIds)
    /\ reqs = NoReqs

NextConcurrent ==
    \/ \E c \in ConcurrentIds, type \in ConcurrentTypes,
            text \in ConcurrentTexts :
          GenerateContent(c, type, text)
    \/ \E c \in ConcurrentIds, result \in InterleavedResults :
          FetchSettles(c, result)
    \/ \E c \in ConcurrentIds, reads \in BOOLEAN : BodySettles(c, reads)
    \/ \E c \in ConcurrentIds : Return(c)
    \/ \E value \in ConcurrentKeys : SetEnv("OPENAI_API_KEY", value)

SpecConcurrent == InitConcurrent /\ [][NextConcurrent]_vars

\* The prompts of two callers: each of the six types is requested through
\* generateContent and through its own function, by two callers whose calls
\* interleave, under two keys and an overridden table, while the key in the
\* environment is assigned.
PromptIds == {1, 2}

InitPrompt ==
    /\ \E e \in ConcurrentEnvs : LoadFor(e, PromptIds)
    /\ reqs = NoReqs

NextPrompt ==
    \/ \E c \in PromptIds, type \in GenerationTypes,
            text \in ConcurrentTexts :
          GenerateContent(c, type, text)
    \/ \E c \in PromptIds, type \in GenerationTypes,
            text \in ConcurrentTexts :
          GenerateByFunction(c, FunctionOf(type), text)
    \/ \E c \in PromptIds, result \in InterleavedResults :
          FetchSettles(c, result)
    \/ \E c \in PromptIds, reads \in BOOLEAN : BodySettles(c, reads)
    \/ \E c \in PromptIds : Return(c)
    \/ \E value \in ConcurrentKeys : SetEnv("OPENAI_API_KEY", value)

SpecPrompt == InitPrompt /\ [][NextPrompt]_vars

\* The process environment assigned after the module was loaded: the key is
\* set, changed or removed between the calls of one caller.
AssignedKeys == KeyValues \cup {StringVal(OtherKey)}

InitEnv == \E e \in {BaseEnv(k) : k \in AssignedKeys} : Load(e)

NextEnv ==
    \/ \E c \in CallIds, type \in ConcurrentTypes, text \in ConcurrentTexts :
          GenerateContent(c, type, text)
    \/ \E c \in CallIds, result \in ConcurrentResults : FetchSettles(c, result)
    \/ \E c \in CallIds, reads \in BOOLEAN : BodySettles(c, reads)
    \/ \E c \in CallIds : Return(c)
    \/ \E value \in AssignedKeys : SetEnv("OPENAI_API_KEY", value)

SpecEnv == InitEnv /\ [][NextEnv]_vars

\* The same, with an upstream that answers every request in the end (or a
\* transport that fails in the end): the promise of fetch settles.
FetchAnswers(c) == \E result \in ConcurrentResults : FetchSettles(c, result)

\* A body that is being read is delivered in the end, or its stream fails.
BodyAnswers(c) == \E reads \in BOOLEAN : BodySettles(c, reads)

SpecLive ==
    /\ InitEnv
    /\ [][NextEnv]_vars
    /\ \A c \in CallIds : WF_vars(FetchAnswers(c)) /\ WF_vars(BodyAnswers(c))

\* Tokens and the middleware.  The clock advances by half an hour, MaxTicks
\* times.
MaxTicks == 3
HalfHour == 30 * 60

JwtSecretValues == {NotSet, SetTo(""), SetTo("s3cret")}

\* The payloads of the tests, a payload without username and email, one
\* with a number that is NaN, and payloads that carry claims of their own:
\* an exp, an nbf half an hour after the start, an iat at the start of the
\* clock plus half an hour, and an iat that is no number.
Payloads ==
    { [user_id |-> JStr("123"), username |-> JStr("testuser"),
       email |-> JStr("test@example.com")],
      [user_id |-> JStr("456"), username |-> JStr("anotheruser"),
       email |-> JStr("another@example.com")],
      [user_id |-> JStr("123")],
      [user_id |-> JStr("123"), exp |-> NumericDate(2 * 60 * 60)],
      [user_id |-> JStr("123"), quota |-> JNum(NaN)],
      [user_id |-> JStr("123"), nbf |-> NumericDate(HalfHour)],
      [user_id |-> JStr("123"), iat |-> NumericDate(HalfHour)],
      [user_id |-> JStr("123"), iat |-> JStr("yesterday")] }

ExpiresIns == {"1h", "30m"}

InvalidToken == <<Word("invalid.token.here")>>

\* A secret that is not the one of this process.
ForeignSecret(secret) ==
    IF secret = "default_jwt_secret" THEN "forged" ELSE "default_jwt_secret"

\* The token strings presented: the one issued last, the same claims signed
\* with another secret, the issued token with user_id altered and the
\* signature kept, a string that is no token, and the empty string.
Presentations == {"issued", "forged", "tampered", "invalid", "empty"}

Presented(which, issued, secret) ==
    CASE which = "issued" -> issued.token
      [] which = "forged" ->
            <<Jwt(issued.token[1].claims, ForeignSecret(secret))>>
      [] which = "tampered" ->
            <<[issued.token[1] EXCEPT
                 !.claims = [@ EXCEPT !["user_id"] = JStr("456")]]>>
      [] which = "invalid" -> InvalidToken
      [] which = "empty" -> <<>>

\* A token can be presented once one was issued.
CanPresent(which, issued) ==
    which \in {"issued", "forged", "tampered"} => issued.token # <<>>

\* The Authorization headers presented with a token string.
HeaderShapes ==
    {"absent", "scheme only", "bearer", "no blank", "two blanks", "basic",
     "invalid first", "trailing word"}

HeaderOf(shape, token) ==
    CASE shape = "absent" -> NoHeader
      [] shape = "scheme only" -> Header(<<Word("Bearer")>>)
      [] shape = "bearer" -> Header(<<Word("Bearer"), Sp>> \o token)
      [] shape = "no blank" -> Header(<<Word("Bearer")>> \o token)
      [] shape = "two blanks" -> Header(<<Word("Bearer"), Sp, Sp>> \o token)
      [] shape = "basic" -> Header(<<Word("Basic"), Sp>> \o token)
      [] shape = "invalid first" ->
            Header(<<Word("Bearer"), Sp>> \o InvalidToken \o <<Sp>> \o token)
      [] shape = "trailing word" ->
            Header(<<Word("Bearer"), Sp>> \o token \o <<Sp, Word("x")>>)

Behaviours == {"responds", "throws", "rejects"}

Tick ==
    /\ now < MaxTicks * HalfHour
    /\ now' = now + HalfHour
    /\ UNCHANGED <<env, OPENAI_API_KEY, generationConfig, calls,
                   JWT_SECRET, auth, dbVars>>

\* A caller calls generateToken(payload, expiresIn).
GenerateToken(payload, expiresIn) ==
    LET r == generateToken(payload, expiresIn, JWT_SECRET, now)
    IN  /\ auth' = [issued |-> IF r.threw THEN auth.issued
                               ELSE [token |-> r.value, payload |-> payload,
                                     expiresIn |-> expiresIn, at |-> now],
                    last |-> [op |-> "generateToken", payload |-> payload,
                              expiresIn |-> expiresIn, at |-> now,
                              threw |-> r.threw, error |-> r.error,
                              value |-> r.value]]
        /\ UNCHANGED <<env, OPENAI_API_KEY, generationConfig, calls,
                       JWT_SECRET, now, dbVars>>

\* A caller calls verifyToken(token).
VerifyToken(which) ==
    LET token == Presented(which, auth.issued, JWT_SECRET)
        r == verifyToken(token, JWT_SECRET, now)
    IN  /\ CanPresent(which, auth.issued)
        /\ auth' = [auth EXCEPT
                      !.last = [op |-> "verifyToken", token |-> token,
                                at |-> now, threw |-> r.threw,
                                error |-> r.error, value |-> r.value]]
        /\ UNCHANGED <<env, OPENAI_API_KEY, generationConfig, calls,
                       JWT_SECRET, now, dbVars>>

\* An endpoint wrapped by withAuth receives a request.
WithAuth(shape, which, behaviour) ==
    /\ CanPresent(which, auth.issued)
    /\ shape = "bearer" \/ which = "issued"
          \/ (shape \in {"absent", "scheme only"} /\ which = "invalid")
    /\ auth' = [auth EXCEPT
                  !.last = withAuth(HeaderOf(shape,
                                             Presented(which, auth.issued,
                                                       JWT_SECRET)),
                                    behaviour, JWT_SECRET, now)]
    /\ UNCHANGED <<env, OPENAI_API_KEY, generationConfig, calls,
                   JWT_SECRET, now, dbVars>>

InitAuth ==
    /\ env = BaseEnv(StringVal(TestKey))
    /\ OPENAI_API_KEY = LoadApiKey(env)
    /\ generationConfig = LoadGenerationConfig(env)
    /\ calls = [c \in CallIds |-> Idle]
    /\ \E x \in JwtSecretValues : JWT_SECRET = LoadJwtSecret(x)
    /\ now = 0
    /\ auth = NoAuth
    /\ db = EmptyDb("drizzle")
    /\ reqs = NoReqs

NextAuth ==
    \/ Tick
    \/ \E payload \in Payloads, expiresIn \in ExpiresIns :
          GenerateToken(payload, expiresIn)
    \/ \E which \in Presentations : VerifyToken(which)
    \/ \E shape \in HeaderShapes, which \in Presentations,
          behaviour \in Behaviours :
          WithAuth(shape, which, behaviour)

SpecAuth == InitAuth /\ [][NextAuth]_vars

\* Registration: MaxRequests requests may be in progress at once, each
\* between two of its awaits.
MaxRequests == 2
RequestIds == 1..MaxRequests

Usernames == {"anna", "bruno"}
Emails == {"anna@example.com", "bruno@example.com"}
Passwords == {"password123"}

RegisterBodies ==
    {[username |-> u, email |-> e, password |-> p] :
        u \in Usernames, e \in Emails, p \in Passwords}
        \cup {[username |-> "anna", email |-> "", password |-> "password123"]}

\* The register endpoint receives a request.
Register(r, method, body) ==
    /\ reqs[r].pc = "idle"
    /\ reqs' = [reqs EXCEPT ![r] = register(method, body)]
    /\ UNCHANGED <<genVars, authVars, db>>

RegisterSelectEmail(r, available) ==
    /\ reqs[r].pc = "selectEmail"
    /\ reqs' = [reqs EXCEPT
                  ![r] = registerAfterEmail(reqs[r], db.Users, available)]
    /\ UNCHANGED <<genVars, authVars, db>>

RegisterSelectUsername(r, available) ==
    /\ reqs[r].pc = "selectUsername"
    /\ reqs' = [reqs EXCEPT
                  ![r] = registerAfterUsername(reqs[r], db.Users, available)]
    /\ UNCHANGED <<genVars, authVars, db>>

\* The hash of the password of request r settles.
RegisterHashSettles(r, hashed) ==
    /\ reqs[r].pc = "hash"
    /\ reqs' = [reqs EXCEPT ![r] = registerAfterHash(reqs[r], hashed)]
    /\ UNCHANGED <<genVars, authVars, db>>

RegisterInsert(r, available) ==
    /\ reqs[r].pc = "insert"
    /\ LET after == registerInsert(reqs[r], db, JWT_SECRET, now, available)
       IN  /\ reqs' = [reqs EXCEPT ![r] = after.req]
           /\ db' = after.db
    /\ UNCHANGED <<genVars, authVars>>

\* The state of the other modules when only the database is exercised.
InitOthers ==
    /\ env = BaseEnv(StringVal(TestKey))
    /\ OPENAI_API_KEY = LoadApiKey(env)
    /\ generationConfig = LoadGenerationConfig(env)
    /\ calls = [c \in CallIds |-> Idle]
    /\ JWT_SECRET = LoadJwtSecret(NotSet)
    /\ now = 0
    /\ auth = NoAuth

InitRegister ==
    /\ InitOthers
    /\ \E schema \in Schemas : db = EmptyDb(schema)
    /\ reqs = [r \in RequestIds |-> NoReq]

NextRegister ==
    \/ \E r \in RequestIds, method \in Methods, body \in RegisterBodies :
          Register(r, method, body)
    \/ \E r \in RequestIds, available \in BOOLEAN :
          RegisterSelectEmail(r, available)
    \/ \E r \in RequestIds, available \in BOOLEAN :
          RegisterSelectUsername(r, available)
    \/ \E r \in RequestIds, hashed \in BOOLEAN : RegisterHashSettles(r, hashed)
    \/ \E r \in RequestIds, available \in BOOLEAN : RegisterInsert(r, available)

SpecRegister == InitRegister /\ [][NextRegister]_vars

\* The generate endpoint that records a log receives a request.
HandlerWithLog(c, method, type, extractedText) ==
    /\ calls[c].pc = "idle"
    /\ calls' = [calls EXCEPT
                   ![c] = handlerWithLog(method, type, extractedText,
                                         OPENAI_API_KEY, generationConfig)]
    /\ UNCHANGED <<env, OPENAI_API_KEY, generationConfig, authVars, dbVars>>

\* The insert of recordLog settles, and the handler answers.  The database
\* inserts a row only when the Logs table takes it.
RecordLogSettles(c, inserted) ==
    /\ calls[c].pc = "logging"
    /\ LET metadata == JObj([type |-> JStr(calls[c].type),
                             output |-> calls[c].outcome.value])
           log == recordLog("system", "generate",
                            LogDescription(calls[c].type), metadata,
                            db, inserted)
       IN  /\ inserted.ok =>
                 FitsLogs(LogValues("system", "generate",
                                    LogDescription(calls[c].type), metadata))
           /\ calls' = [calls EXCEPT ![c] = handlerAfterLog(calls[c], log)]
           /\ db' = log.db
    /\ UNCHANGED <<env, OPENAI_API_KEY, generationConfig, authVars, reqs>>

\* The generate endpoints: the one of pages/api/generate.ts and the one that
\* records a log.
LogResults ==
    {OkResponse(Completion(JStr("Generated content text"))),
     OkResponse(Completion(JStr(""))),
     ErrorResponse(500, "Internal Server Error"),
     FetchRejected}

\* The errors a failing insert is rejected with.
InsertResults ==
    {Inserted, InsertFailed("insert failed"),
     InsertFailed("invalid input syntax for type uuid")}

\* How the select of the logs endpoint ends.
SelectResults ==
    {[ok |-> TRUE, error |-> ""],
     [ok |-> FALSE, error |-> "connection refused"],
     [ok |-> FALSE, error |-> "Connection terminated unexpectedly"]}

\* The logs endpoint: one request at a time, until MaxLogs rows are stored.
MaxLogs == 2
SomeUuid == "3cbeb717-90ff-405b-b222-9bf56df07e8b"
LogsMethods == {"GET", "POST", "DELETE"}
LogsBodies ==
    {[user_id |-> SomeUuid, action_type |-> "upload",
      description |-> "Uploaded a file.", metadata |-> JUndefined],
     [user_id |-> SomeUuid, action_type |-> "generate",
      description |-> "Generated blurb content successfully.",
      metadata |-> JObj([type |-> JStr("blurb")])],
     [user_id |-> "system", action_type |-> "generate",
      description |-> "Generated blurb content successfully.",
      metadata |-> JUndefined],
     [user_id |-> SomeUuid, action_type |-> "upload", description |-> "",
      metadata |-> JUndefined]}

\* The logs endpoint receives a request.
Logs(method, body) ==
    /\ reqs[1].pc = "idle"
    /\ reqs' = [reqs EXCEPT ![1] = logsHandler(method, body)]
    /\ UNCHANGED <<genVars, authVars, db>>

\* The select of the GET branch settles.
LogsSelectSettles(selected) ==
    /\ reqs[1].pc = "select"
    /\ reqs' = [reqs EXCEPT ![1] = logsAfterSelect(reqs[1], db, selected)]
    /\ UNCHANGED <<genVars, authVars, db>>

\* The insert of recordLog settles in the POST branch.
LogsInsertSettles(inserted) ==
    /\ reqs[1].pc = "insert"
    /\ LET body == reqs[1].body
           log == recordLog(body.user_id, body.action_type, body.description,
                            body.metadata, db, inserted)
       IN  /\ inserted.ok =>
                 FitsLogs(LogValues(body.user_id, body.action_type,
                                    body.description, body.metadata))
           /\ reqs' = [reqs EXCEPT ![1] = logsAfterInsert(reqs[1], log)]
           /\ db' = log.db
    /\ UNCHANGED <<genVars, authVars>>

\* The response was sent; the next request may come.
LogsDone ==
    /\ reqs[1].pc = "done"
    /\ Cardinality(db.Logs) < MaxLogs
    /\ reqs' = [reqs EXCEPT ![1] = NoReq]
    /\ UNCHANGED <<genVars, authVars, db>>

InitLog ==
    /\ \E e \in {BaseEnv(k) : k \in KeyValues} : LoadFor(e, CallIds)
    /\ reqs = [r \in {1} |-> NoReq]

NextLog ==
    \/ \E c \in CallIds, method \in Methods, type \in Types \cup {""},
            text \in Texts :
          Handler(c, method, type, text)
    \/ \E c \in CallIds, method \in Methods, type \in Types \cup {""},
            text \in Texts :
          HandlerWithLog(c, method, type, text)
    \/ \E c \in CallIds, result \in LogResults : FetchSettles(c, result)
    \/ \E c \in CallIds, reads \in BOOLEAN : BodySettles(c, reads)
    \/ \E c \in CallIds, inserted \in InsertResults :
          RecordLogSettles(c, inserted)
    \/ \E method \in LogsMethods, body \in LogsBodies : Logs(method, body)
    \/ \E selected \in SelectResults : LogsSelectSettles(selected)
    \/ \E inserted \in InsertResults : LogsInsertSettles(inserted)
    \/ LogsDone
    \/ \E c \in CallIds : Return(c)

SpecLog == InitLog /\ [][NextLog]_vars

\* The parsers called on their own, as the unit tests call them.
ExtractedTexts ==
    {"Extracted DOCX text", "Extracted PDF text", "", "  two  words \n"}

LibraryErrors == {"Mammoth error", "pdf-parse error", DocxFailure, ""}

MammothResults ==
    {Resolved(JObj([value |-> JStr(t), messages |-> JArr(<<>>)])) :
        t \in ExtractedTexts}
        \cup {LibraryFailed(m) : m \in LibraryErrors}

PdfParseResults ==
    {Resolved(JObj([text |-> JStr(t), numpages |-> JNum(Dec(1, 0))])) :
        t \in ExtractedTexts}
        \cup {LibraryFailed(m) : m \in LibraryErrors}

\* A call of a parser: parsing while it awaits its library, then done.
\* library: what the library settled with; logged: what console.error
\* received.
ParseReq(pc, format, library, outcome) ==
    [kind |-> "parse", pc |-> pc, format |-> format,
     library |-> library, outcome |-> outcome,
     logged |-> IF library.kind = "rejected" THEN <<library.message>>
                ELSE <<>>]

\* parseDocx is called: it hands the buffer to mammoth.extractRawText and
\* awaits it.
ParseDocx(r) ==
    /\ reqs[r].pc = "idle"
    /\ reqs' = [reqs EXCEPT ![r] = ParseReq("parsing", "docx", Pending, Pending)]
    /\ UNCHANGED <<genVars, authVars, db>>

\* mammoth.extractRawText settles and parseDocx returns or throws.
MammothSettles(r, library) ==
    /\ reqs[r].pc = "parsing"
    /\ reqs[r].format = "docx"
    /\ reqs' = [reqs EXCEPT
                  ![r] = ParseReq("done", "docx", library, parseDocx(library))]
    /\ UNCHANGED <<genVars, authVars, db>>

\* parsePdf is called: it hands the buffer to pdfParse and awaits it.
ParsePdf(r) ==
    /\ reqs[r].pc = "idle"
    /\ reqs' = [reqs EXCEPT ![r] = ParseReq("parsing", "pdf", Pending, Pending)]
    /\ UNCHANGED <<genVars, authVars, db>>

\* pdfParse settles and parsePdf returns or throws.
PdfParseSettles(r, library) ==
    /\ reqs[r].pc = "parsing"
    /\ reqs[r].format = "pdf"
    /\ reqs' = [reqs EXCEPT
                  ![r] = ParseReq("done", "pdf", library, parsePdf(library))]
    /\ UNCHANGED <<genVars, authVars, db>>

InitParse ==
    /\ InitOthers
    /\ db = EmptyDb("drizzle")
    /\ reqs = [r \in RequestIds |-> NoReq]

NextParse ==
    \/ \E r \in RequestIds : ParseDocx(r)
    \/ \E r \in RequestIds, library \in MammothResults :
          MammothSettles(r, library)
    \/ \E r \in RequestIds : ParsePdf(r)
    \/ \E r \in RequestIds, library \in PdfParseResults :
          PdfParseSettles(r, library)

SpecParse == InitParse /\ [][NextParse]_vars


\* The session endpoint with two users.  Senders: each user with the token
\* issued to them, a sender presenting claims of the second user signed
\* with another secret, and a sender without Authorization header.
UserA == [user_id |-> JStr("123"), username |-> JStr("testuser"),
          email |-> JStr("test@example.com")]
UserB == [user_id |-> JStr("456"), username |-> JStr("anotheruser"),
          email |-> JStr("another@example.com")]

\* Two users whose ids are uuids, as the Files table requires.
OtherUuid == "9f1c2d3e-4b5a-4c6d-8e7f-0a1b2c3d4e5f"
UserC == [user_id |-> JStr(SomeUuid), username |-> JStr("carla"),
          email |-> JStr("carla@example.com")]
UserD == [user_id |-> JStr(OtherUuid), username |-> JStr("dario"),
          email |-> JStr("dario@example.com")]

Senders == {"A", "B", "forged B", "anonymous"}

TokenOf(user, secret) == generateToken(user, "1h", secret, 0).value

AuthorizationOf(who, secret) ==
    CASE who = "A" -> Header(<<Word("Bearer"), Sp>> \o TokenOf(UserA, secret))
      [] who = "B" -> Header(<<Word("Bearer"), Sp>> \o TokenOf(UserB, secret))
      [] who = "C" -> Header(<<Word("Bearer"), Sp>> \o TokenOf(UserC, secret))
      [] who = "D" -> Header(<<Word("Bearer"), Sp>> \o TokenOf(UserD, secret))
      [] who = "forged B" ->
            Header(<<Word("Bearer"), Sp>>
                      \o TokenOf(UserB, ForeignSecret(secret)))
      [] who = "anonymous" -> NoHeader

SessionMethods == {"POST", "GET", "DELETE"}

SessionBodies ==
    {[file_id |-> "file-1", actions |-> "opened", user_id |-> JUndefined],
     [file_id |-> "file-1", actions |-> "opened", user_id |-> UserB.user_id],
     [file_id |-> "file-2", actions |-> "", user_id |-> JUndefined]}

Session(r, who, method, body) ==
    /\ reqs[r].pc = "idle"
    /\ method = "GET" => body.user_id = JUndefined /\ body.actions # ""
    /\ reqs' = [reqs EXCEPT
                  ![r] = session(method, body, who,
                                 AuthorizationOf(who, JWT_SECRET),
                                 JWT_SECRET, now)]
    /\ UNCHANGED <<genVars, authVars, db>>

SessionInsertSettles(r, inserted) ==
    /\ reqs[r].pc = "insert"
    /\ LET result == recordSessionHistory(reqs[r].userId, reqs[r].body.file_id,
                                          reqs[r].body.actions, db, inserted)
       IN  /\ reqs' = [reqs EXCEPT ![r] = sessionAfterInsert(reqs[r], result)]
           /\ db' = result.db
    /\ UNCHANGED <<genVars, authVars>>

SessionSelectSettles(r, selected) ==
    /\ reqs[r].pc = "select"
    /\ reqs' = [reqs EXCEPT
                  ![r] = sessionAfterSelect(
                             reqs[r],
                             getSessionHistory(reqs[r].userId, db, selected))]
    /\ UNCHANGED <<genVars, authVars, db>>

InitSession ==
    /\ InitOthers
    /\ db = EmptyDb("drizzle")
    /\ reqs = [r \in RequestIds |-> NoReq]

NextSession ==
    \/ \E r \in RequestIds, who \in Senders, method \in SessionMethods,
            body \in SessionBodies :
          Session(r, who, method, body)
    \/ \E r \in RequestIds, inserted \in BOOLEAN :
          SessionInsertSettles(r, inserted)
    \/ \E r \in RequestIds, selected \in BOOLEAN :
          SessionSelectSettles(r, selected)

SpecSession == InitSession /\ [][NextSession]_vars


\* analyzeDocument called on its own, with every text over a small alphabet.
MaxTextLen == 5
TextAlphabet == {"a", " ", "\n", "."}

RECURSIVE TextsUpTo(_)
TextsUpTo(n) ==
    IF n = 0 THEN {<<>>}
    ELSE LET shorter == TextsUpTo(n - 1)
         IN  shorter \cup {Append(t, c) : t \in shorter, c \in TextAlphabet}

DocumentTexts == TextsUpTo(MaxTextLen)

AnalyzeDocument(text) ==
    /\ reqs[1].pc = "idle"
    /\ reqs' = [reqs EXCEPT
                  ![1] = [kind |-> "analyze", pc |-> "done", text |-> text,
                          analysis |-> analyzeDocument(text)]]
    /\ UNCHANGED <<genVars, authVars, db>>

InitAnalysis ==
    /\ InitOthers
    /\ db = EmptyDb("drizzle")
    /\ reqs = [r \in {1} |-> NoReq]

NextAnalysis == \E text \in DocumentTexts : AnalyzeDocument(text)

SpecAnalysis == InitAnalysis /\ [][NextAnalysis]_vars


\* The two validations applied to files of every size and type drawn: sizes
\* of whole megabytes around the limit and the sizes next to the limit.
FileSizes ==
    {k * MB : k \in 0..40} \cup {1, MaxFileSize - 1, MaxFileSize + 1}
FileTypes == {DocxMime, PdfMime, "image/png", "application/PDF", ""}

ValidateFile(size, type) ==
    /\ reqs[1].pc = "idle"
    /\ reqs' = [reqs EXCEPT
                  ![1] = [kind |-> "validateFile", pc |-> "done",
                          size |-> size, type |-> type,
                          result |-> validateFile(
                                        [size |-> size, type |-> type],
                                        MaxFileSize, allowedMimeTypes)]]
    /\ UNCHANGED <<genVars, authVars, db>>

ValidateUploadedFile(size, type) ==
    /\ reqs[2].pc = "idle"
    /\ reqs' = [reqs EXCEPT
                  ![2] = [kind |-> "validateUploadedFile", pc |-> "done",
                          size |-> size, type |-> type,
                          result |-> validateUploadedFile(
                                        [size |-> size,
                                         mimetype |-> JStr(type)],
                                        MaxFileSize)]]
    /\ UNCHANGED <<genVars, authVars, db>>

InitValidation ==
    /\ InitOthers
    /\ db = EmptyDb("drizzle")
    /\ reqs = [r \in {1, 2} |-> NoReq]

NextValidation ==
    \/ \E size \in FileSizes, type \in FileTypes : ValidateFile(size, type)
    \/ \E size \in FileSizes, type \in FileTypes :
          ValidateUploadedFile(size, type)

SpecValidation == InitValidation /\ [][NextValidation]_vars


MaxUploads == 2

\* Uploads.  A file is what the sender declares of it (size, MIME type,
\* name) and what it holds: the bytes of a DOCX, of a PDF, or of neither.
UploadText == <<"a", " ", "a", ".">>

UploadSizes == {1024, MaxFileSize, MaxFileSize + 1}
UploadMimeTypes == {JStr(DocxMime), JStr(PdfMime), JStr("image/png"), JNull}
UploadNames ==
    {<<"book", ".", "docx">>, <<"book", ".", "PDF">>, <<"book", ".", "txt">>,
     <<"book", ".", "pdf", ".", "docx">>, <<".", "pdf">>, <<>>}
Contents == {"docx", "pdf", "other"}

UploadFiles ==
    [size : UploadSizes, mimetype : UploadMimeTypes,
     originalFilename : UploadNames, filepath : {"/tmp/upload_1"},
     content : Contents]

FormResults ==
    {FormParsed(TRUE), FormParsed(FALSE),
     FormRejected(Error("maxFileSize exceeded")),
     FormRejected([statusCode |-> 413, message |-> ""])}

\* What the libraries make of the bytes.
mammothOn(content) ==
    IF content = "docx"
    THEN Resolved(JObj([value |-> JStr(UploadText), messages |-> JArr(<<>>)]))
    ELSE LibraryFailed("Can't find end of central directory")
pdfParseOn(content) ==
    IF content = "pdf"
    THEN Resolved(JObj([text |-> JStr(UploadText), numpages |-> JNum(Dec(1, 0))]))
    ELSE LibraryFailed("Invalid PDF structure")

\* The senders: the user of the tests, whose id '123' is no uuid, two users
\* with uuids, and a sender without token.
UploadSenders == {"A", "C", "D", "anonymous"}

Upload(method, who, file) ==
    /\ reqs[1].pc = "idle"
    /\ reqs' = [reqs EXCEPT
                  ![1] = upload(method, who, file,
                                AuthorizationOf(who, JWT_SECRET),
                                JWT_SECRET, now)]
    /\ UNCHANGED <<genVars, authVars, db>>

\* parseForm settles.  formidable is given maxFileSize 30MB: it parses no
\* file beyond that, it rejects the form.
UploadFormParsed(form, readable) ==
    /\ reqs[1].pc = "parseForm"
    /\ (form.kind = "parsed" /\ form.hasFile)
          => reqs[1].file.size <= MaxFileSize
    /\ reqs' = [reqs EXCEPT ![1] = uploadAfterForm(reqs[1], form, readable)]
    /\ UNCHANGED <<genVars, authVars, db>>

UploadParserSettles ==
    /\ reqs[1].pc = "parsing"
    /\ reqs' = [reqs EXCEPT
                  ![1] = uploadAfterParse(
                             reqs[1],
                             IF reqs[1].parser = "parseDocx"
                             THEN parseDocx(mammothOn(reqs[1].file.content))
                             ELSE parsePdf(pdfParseOn(reqs[1].file.content)))]
    /\ UNCHANGED <<genVars, authVars, db>>

UploadInsertSettles(available) ==
    /\ reqs[1].pc = "insert"
    /\ LET result == uploadAfterInsert(reqs[1], db, available)
       IN  /\ reqs' = [reqs EXCEPT ![1] = result.req]
           /\ db' = result.db
    /\ UNCHANGED <<genVars, authVars>>

\* The response was sent; the next request can be taken.
UploadDone ==
    /\ reqs[1].pc = "done"
    /\ Cardinality(db.Files) < MaxUploads
    /\ reqs' = [reqs EXCEPT ![1] = NoReq]
    /\ UNCHANGED <<genVars, authVars, db>>

InitUpload ==
    /\ InitOthers
    /\ db = EmptyDb("drizzle")
    /\ reqs = [r \in {1} |-> NoReq]

NextUpload ==
    \/ \E method \in Methods, who \in UploadSenders, file \in UploadFiles :
          Upload(method, who, file)
    \/ \E form \in FormResults, readable \in BOOLEAN :
          UploadFormParsed(form, readable)
    \/ UploadParserSettles
    \/ \E available \in BOOLEAN : UploadInsertSettles(available)
    \/ UploadDone

SpecUpload == InitUpload /\ [][NextUpload]_vars


\* Logins against a Users table with two registered users.
RegisteredUsers ==
    {[user_id |-> 1, username |-> "anna", email |-> "anna@example.com",
      hashed_password |-> hashPassword("password123")],
     [user_id |-> 2, username |-> "bruno", email |-> "bruno@example.com",
      hashed_password |-> hashPassword("secret456")]}

LoginBodies ==
    [email : {"anna@example.com", "bruno@example.com", "carla@example.com", ""},
     password : {"password123", "secret456", ""}]

\* The rows of Users with the given email, in some order.
RowsByEmail(Users, email) ==
    LET rows == {u \in Users : u.email = email}
    IN  {seq \in UNION {[1..n -> rows] : n \in {Cardinality(rows)}} :
            \A u \in rows : \E i \in DOMAIN seq : seq[i] = u}

Login(r, method, body) ==
    /\ reqs[r].pc = "idle"
    /\ reqs' = [reqs EXCEPT ![r] = login(method, body)]
    /\ UNCHANGED <<genVars, authVars, db>>

LoginSelectSettles(r, available) ==
    /\ reqs[r].pc = "select"
    /\ \E users \in RowsByEmail(db.Users, reqs[r].body.email) :
          reqs' = [reqs EXCEPT
                     ![r] = IF available THEN loginAfterSelect(reqs[r], users)
                            ELSE loginFailed(reqs[r],
                                             Error("Connection terminated unexpectedly"))]
    /\ UNCHANGED <<genVars, authVars, db>>

\* comparePassword settles; compared: bcrypt gave an answer.
LoginCompareSettles(r, compared) ==
    /\ reqs[r].pc = "compare"
    /\ reqs' = [reqs EXCEPT
                  ![r] = IF compared
                         THEN loginAfterCompare(reqs[r], JWT_SECRET, now)
                         ELSE loginFailed(reqs[r],
                                          Error("Illegal arguments: string, undefined"))]
    /\ UNCHANGED <<genVars, authVars, db>>

InitLogin ==
    /\ InitOthers
    /\ db = [EmptyDb("supabase") EXCEPT !.Users = RegisteredUsers,
                                        !.nextId = 3]
    /\ reqs = [r \in RequestIds |-> NoReq]

NextLogin ==
    \/ \E r \in RequestIds, method \in Methods, body \in LoginBodies :
          Login(r, method, body)
    \/ \E r \in RequestIds, available \in BOOLEAN :
          LoginSelectSettles(r, available)
    \/ \E r \in RequestIds, compared \in BOOLEAN :
          LoginCompareSettles(r, compared)

SpecLogin == InitLogin /\ [][NextLogin]_vars


-----------------------------------------------------------------------------
(* Properties.                                                             *)

\* The call of slot c as it was while it awaited fetch.
Awaiting(call) ==
    [call EXCEPT !.pc = "awaiting", !.result = NoResult, !.outcome = Pending,
                 !.logged = <<>>, !.http = NoHttp]

KeyConfigured == OPENAI_API_KEY # <<>>

\* C1: for each of the six types and any non-empty text, with a credential
\* configured and a success response whose choices[0].message.content is the
\* non-empty text T, the call returns exactly T: not trimmed, not parsed, not
\* validated (for categories, whether or not T is the requested JSON).
C1_ReturnsGeneratedTextUnchanged ==
    \A c \in CallIds : \A g \in GeneratedTexts :
        LET call == calls[c]
        IN  ( /\ call.pc = "done"
              /\ call.invoked = 1
              /\ call.type \in GenerationTypes
              /\ call.text # ""
              /\ KeyConfigured
              /\ call.result = OkResponse(Completion(JStr(g))) )
            => call.outcome = Returned(JStr(g))

\* A categories call that got a padded text that is no JSON, and returned it.
C1_Witness ==
    \E c \in CallIds :
        /\ calls[c].pc = "done"
        /\ calls[c].via = "generateContent"
        /\ calls[c].type = "categories"
        /\ calls[c].text = "A story about a detective."
        /\ calls[c].result = OkResponse(Completion(JStr("  padded text \n")))
        /\ calls[c].outcome = Returned(JStr("  padded text \n"))

\* C2: a call with a type outside the six recognized values fails with the
\* unsupported-type error and sends no request, whether or not a credential
\* is configured and whatever the text is.
C2_InvalidTypeFailsWithoutRequest ==
    \A c \in CallIds :
        LET call == calls[c]
        IN  ( /\ call.via = "generateContent"
              /\ call.type \notin GenerationTypes )
            => /\ call.pc = "done"
               /\ call.outcome = Threw(InvalidTypeMessage)
               /\ call.sent = 0
               /\ call.request = NoRequest

\* An unrecognized type with no credential configured: the type error wins.
C2_Witness ==
    \E c \in CallIds :
        /\ calls[c].via = "generateContent"
        /\ calls[c].type = BogusType
        /\ calls[c].text = "Test extracted text"
        /\ ~KeyConfigured
        /\ calls[c].outcome = Threw(InvalidTypeMessage)

\* C3: when the upstream answers with a non-success status the call fails
\* with the generic error, and that outcome is the same for every other
\* non-success status and body the same call could have received.
C3_UpstreamErrorIsGeneric ==
    \A c \in CallIds :
        LET call == calls[c]
        IN  ( /\ call.pc = "done"
              /\ call.result.kind = "response"
              /\ ~call.result.ok )
            => /\ call.outcome = Threw(GenerationFailedMessage)
               /\ \A r \in ErrorResponses, reads \in BOOLEAN :
                    generateContentResume(Awaiting(call),
                                          BodyRead(r, reads)).outcome
                        = call.outcome

\* A 401 whose body names the key: logged, and not in the caller's error.
C3_Witness ==
    \E c \in CallIds :
        /\ calls[c].pc = "done"
        /\ calls[c].result.kind = "response"
        /\ calls[c].result.status = 401
        /\ calls[c].logged =
             <<UpstreamErrorMessage(401, calls[c].result.text)>>
        /\ calls[c].outcome = Threw(GenerationFailedMessage)

\* C4 as stated: every failure of a call with a recognized type, the
\* missing credential included, reaches the caller as the generic error.
C4_Original_EveryFailureIsGeneric ==
    \A c \in CallIds :
        LET call == calls[c]
        IN  ( /\ call.pc = "done"
              /\ call.invoked = 1
              /\ call.type \in GenerationTypes
              /\ call.outcome.kind = "threw" )
            => call.outcome = Threw(GenerationFailedMessage)

\* C5: a success status with a body that is no JSON, or has no choices, an
\* empty choices list, a first choice without message or content, or an
\* empty content, makes the call fail with the generic error; no text is
\* returned.
C5_MalformedResponseFails ==
    \A c \in CallIds :
        LET call == calls[c]
        IN  ( /\ call.pc = "done"
              /\ \/ call.result = UnparsableResponse
                 \/ \E d \in MalformedData : call.result = OkResponse(d)
                 \/ /\ call.result.kind = "response"
                    /\ call.result.ok
                    /\ ~call.result.reads )
            => /\ call.outcome = Threw(GenerationFailedMessage)
               /\ call.http.status # 200

\* The content field is there and is the empty string.
C5_Witness ==
    \E c \in CallIds :
        /\ calls[c].pc = "done"
        /\ calls[c].via = "generateContent"
        /\ calls[c].result = OkResponse(Completion(JStr("")))
        /\ calls[c].outcome = Threw(GenerationFailedMessage)
        /\ calls[c].logged = <<InvalidResponseMessage>>

\* C6 as stated: with no credential configured a generation function fails
\* with the missing-key error before any request is sent; no request is
\* ever sent with an empty or absent bearer credential.
C6_NoRequestWithoutCredential ==
    \A c \in CallIds :
        LET call == calls[c]
        IN  /\ call.request.sent =>
                /\ call.request.authorization.scheme = "Bearer"
                /\ call.request.authorization.credential # <<>>
            /\ ( /\ call.invoked = 1
                 /\ call.type \in GenerationTypes
                 /\ ~KeyConfigured )
               => /\ call.pc = "done"
                  /\ call.outcome = Threw(MissingKeyMessage)
                  /\ call.sent = 0
                  /\ call.request = NoRequest

\* C7 as stated: generateContent called with a recognized type and an empty
\* text fails with an input error of its own and sends no request.
C7_Original_EmptyTextRejected ==
    \A c \in CallIds :
        LET call == calls[c]
        IN  ( /\ call.via = "generateContent"
              /\ call.type \in GenerationTypes
              /\ call.text = "" )
            => /\ call.pc = "done"
               /\ call.sent = 0
               /\ call.outcome.kind = "threw"
               /\ call.outcome.message \notin
                    {InvalidTypeMessage, MissingKeyMessage,
                     GenerationFailedMessage}

\* C7 as amended: generateContent makes no check of the text: with a
\* recognized type, an empty text and a credential it sends one request
\* whose user prompt is the type's prompt for the empty text; the check is
\* made by the HTTP handler alone, which answers 400 and calls no
\* generation function.
C7_EmptyTextCheckedByHandlerOnly ==
    \A c \in CallIds :
        LET call == calls[c]
        IN  /\ ( /\ call.via = "generateContent"
                 /\ call.type \in GenerationTypes
                 /\ call.text = ""
                 /\ KeyConfigured )
               => /\ call.sent = 1
                  /\ call.request.body.messages[2].content
                        = BuildPrompt(call.type, "").prompt
                  /\ call.outcome.kind = "threw"
                        => call.outcome = Threw(GenerationFailedMessage)
            /\ ( /\ call.via = "generateContent"
                 /\ call.type \in GenerationTypes
                 /\ call.text = ""
                 /\ ~KeyConfigured )
               => call.outcome = Threw(MissingKeyMessage)
            /\ ( /\ call.via = "handler"
                 /\ call.text = ""
                 /\ call.http.status # 405 )
               => /\ call.pc = "done"
                  /\ call.http = MissingFields
                  /\ call.invoked = 0
                  /\ call.sent = 0

\* An empty text on its way to the upstream.
C7_Witness ==
    \E c \in CallIds :
        /\ calls[c].pc = "awaiting"
        /\ calls[c].via = "generateContent"
        /\ calls[c].type = "keywords"
        /\ calls[c].text = ""
        /\ calls[c].sent = 1
        /\ calls[c].request.body.messages[2].content = KeywordsClause

\* C8: a call sends exactly one request when its type is recognized and a
\* credential is configured, and none otherwise; after a failed request
\* (non-success status, unusable body, transport error) the count is still
\* one.
C8_AtMostOneRequest ==
    \A c \in CallIds :
        LET call == calls[c]
        IN  /\ call.invoked = 0 => call.sent = 0
            /\ call.invoked = 1 =>
                 call.sent = IF call.type \in GenerationTypes /\ KeyConfigured
                             THEN 1 ELSE 0
            /\ call.pc \in {"awaiting", "reading"} => call.sent = 1
            /\ call.sent = 1 <=> call.request.sent

\* A call that ended after a 500.
C8_Witness ==
    \E c \in CallIds :
        /\ calls[c].pc = "done"
        /\ calls[c].via = "generateContent"
        /\ calls[c].result = ErrorResponse(500, "Error details")
        /\ calls[c].sent = 1

\* The documented defaults.
DocumentedDefaults ==
    [blurb       |-> [temperature |-> Dec(7, 1), max_tokens |-> Dec(500, 0)],
     description |-> [temperature |-> Dec(7, 1), max_tokens |-> Dec(500, 0)],
     keywords    |-> [temperature |-> Dec(5, 1), max_tokens |-> Dec(150, 0)],
     categories  |-> [temperature |-> Dec(6, 1), max_tokens |-> Dec(200, 0)],
     foreword    |-> [temperature |-> Dec(7, 1), max_tokens |-> Dec(400, 0)],
     analysis    |-> [temperature |-> Dec(8, 1), max_tokens |-> Dec(600, 0)]]

NoOverrideSet == \A n \in OverrideNames : ~env[n].set

\* C9: with no override set, the table holds the documented defaults for
\* every type, and every request sent carries the defaults of its type.
C9_DefaultsWithoutOverride ==
    NoOverrideSet =>
        /\ \A type \in GenerationTypes :
              generationConfig[type] = DocumentedDefaults[type]
        /\ \A c \in CallIds :
              calls[c].request.sent =>
                 /\ calls[c].request.body.temperature
                       = JNum(DocumentedDefaults[calls[c].type].temperature)
                 /\ calls[c].request.body.max_tokens
                       = JNum(DocumentedDefaults[calls[c].type].max_tokens)

\* A keywords request with temperature 0.5 and 150 tokens.
C9_Witness ==
    \E c \in CallIds :
        /\ NoOverrideSet
        /\ calls[c].pc = "awaiting"
        /\ calls[c].type = "keywords"
        /\ calls[c].request.body.temperature = JNum(Dec(5, 1))
        /\ calls[c].request.body.max_tokens = JNum(Dec(150, 0))

\* The environment variable of a type's setting.
OverrideName(type, setting) ==
    CASE type = "blurb" /\ setting = "temperature" -> "OPENAI_BLURB_TEMPERATURE"
      [] type = "blurb" /\ setting = "max_tokens" -> "OPENAI_BLURB_MAX_TOKENS"
      [] type = "description" /\ setting = "temperature" ->
            "OPENAI_DESCRIPTION_TEMPERATURE"
      [] type = "description" /\ setting = "max_tokens" ->
            "OPENAI_DESCRIPTION_MAX_TOKENS"
      [] type = "keywords" /\ setting = "temperature" ->
            "OPENAI_KEYWORDS_TEMPERATURE"
      [] type = "keywords" /\ setting = "max_tokens" ->
            "OPENAI_KEYWORDS_MAX_TOKENS"
      [] type = "categories" /\ setting = "temperature" ->
            "OPENAI_CATEGORIES_TEMPERATURE"
      [] type = "categories" /\ setting = "max_tokens" ->
            "OPENAI_CATEGORIES_MAX_TOKENS"
      [] type = "foreword" /\ setting = "temperature" ->
            "OPENAI_FOREWORD_TEMPERATURE"
      [] type = "foreword" /\ setting = "max_tokens" ->
            "OPENAI_FOREWORD_MAX_TOKENS"
      [] type = "analysis" /\ setting = "temperature" ->
            "OPENAI_ANALYSIS_TEMPERATURE"
      [] type = "analysis" /\ setting = "max_tokens" ->
            "OPENAI_ANALYSIS_MAX_TOKENS"

Settings == {"temperature", "max_tokens"}

\* A string that is a decimal numeral as a whole: optional sign, digits with
\* an optional fraction, or a fraction alone; white space around it ignored.
RECURSIVE TrimEnd(_)
TrimEnd(s) ==
    IF s # <<>> /\ IsWhiteSpace(s[Len(s)])
    THEN TrimEnd(SubSeq(s, 1, Len(s) - 1)) ELSE s

IsNumeral(str) ==
    LET t    == TrimEnd(TrimStart(str))
        u    == IF t # <<>> /\ Head(t) \in {"-", "+"} THEN Tail(t) ELSE t
        int  == TakeDigits(u)
        r    == Drop(u, Len(int))
        frac == IF r # <<>> /\ Head(r) = "." THEN TakeDigits(Tail(r)) ELSE <<>>
        rest == IF r # <<>> /\ Head(r) = "." THEN Drop(r, 1 + Len(frac)) ELSE r
    IN  Len(int) + Len(frac) > 0 /\ rest = <<>>

\* C10 as stated: for every type and each of its two settings, when the
\* override is missing, empty or not a valid number, the table holds the
\* hardcoded default of that setting.
C10_InvalidOverrideFallsBack ==
    \A type \in GenerationTypes : \A setting \in Settings :
        LET v == env[OverrideName(type, setting)]
        IN  (~v.set \/ v.v = <<>> \/ ~IsNumeral(v.v))
            => generationConfig[type][setting]
                  = DocumentedDefaults[type][setting]


\* a <= b for two numbers; a comparison with NaN is false.
NumLeq(a, b) ==
    /\ ~a.nan
    /\ ~b.nan
    /\ a.mant * Pow10(b.exp) <= b.mant * Pow10(a.exp)

TemperatureInRange(t) == NumLeq(Dec(0, 0), t) /\ NumLeq(t, Dec(2, 0))
PositiveInteger(n) == ~n.nan /\ n.exp = 0 /\ n.mant > 0

\* C11 as stated: whatever the override values were, every entry of the
\* table has a temperature in [0,2] and a max_tokens that is a positive
\* integer, so every request sent carries a temperature in [0,2] and a
\* positive integer max_tokens.
C11_RequestsInRange ==
    \A c \in CallIds :
        calls[c].request.sent =>
           /\ calls[c].request.body.temperature.t = "number"
           /\ TemperatureInRange(calls[c].request.body.temperature.n)
           /\ calls[c].request.body.max_tokens.t = "number"
           /\ PositiveInteger(calls[c].request.body.max_tokens.n)

\* The functions that can be called directly, and the type each one names.
Functions == {"generateContent"} \cup {FunctionOf(t) : t \in GenerationTypes}

TypeNamed(call) ==
    IF call.via = "generateContent" THEN call.type
    ELSE CHOOSE t \in GenerationTypes : FunctionOf(t) = call.via

\* C12: for every recognized type the request sent by generateContent(type,
\* text), and by the per-type function of that type, is a POST to the fixed
\* endpoint with the fixed model, exactly two messages, system then user,
\* the fixed system instruction, the prompt of that type for that text as
\* user message, and the temperature and max_tokens of that type's entry.
C12_RequestIsOfItsType ==
    \A c \in CallIds :
        LET call == calls[c]
        IN  (call.request.sent /\ call.via \in Functions) =>
               LET type == TypeNamed(call)
               IN  /\ type \in GenerationTypes
                   /\ call.request.url
                        = "https://api.openai.com/v1/chat/completions"
                   /\ call.request.method = "POST"
                   /\ call.request.body.model = "gpt-3.5-turbo"
                   /\ Len(call.request.body.messages) = 2
                   /\ call.request.body.messages[1] =
                        [role |-> "system",
                         content |-> "Sei un assistente esperto nella generazione di contenuti per libri in italiano."]
                   /\ call.request.body.messages[2] =
                        [role |-> "user",
                         content |-> BuildPrompt(type, call.text).prompt]
                   /\ call.request.body.temperature
                        = JsonNumber(generationConfig[type].temperature)
                   /\ call.request.body.max_tokens
                        = JsonNumber(generationConfig[type].max_tokens)

\* generateForeword has sent its request while the description entry is
\* overridden: the request carries the foreword entry.
C12_Witness ==
    \E c \in CallIds :
        /\ calls[c].pc = "awaiting"
        /\ calls[c].via = "generateForeword"
        /\ calls[c].text = "A story about a detective."
        /\ env["OPENAI_DESCRIPTION_MAX_TOKENS"] = StringVal(<<"3", "0">>)
        /\ generationConfig["description"].max_tokens = Dec(30, 0)
        /\ calls[c].request.body.max_tokens = JNum(Dec(400, 0))
        /\ calls[c].request.body.messages[2].content
             = ForewordClause \o "A story about a detective."

\* The user message of a request.
UserMessage(call) == call.request.body.messages[2].content

\* The instruction clause of each type.
InstructionClause(type) ==
    CASE type = "blurb" -> BlurbClause
      [] type = "description" -> DescriptionClause
      [] type = "keywords" -> KeywordsClause
      [] type = "categories" -> CategoriesClause
      [] type = "foreword" -> ForewordClause
      [] type = "analysis" -> AnalysisClause

\* What follows the source text: the JSON instruction, for categories only.
AfterText(type) == IF type = "categories" THEN CategoriesJsonClause ELSE ""

\* The calls of the state that built a prompt for (type, text).
BuiltFor(type, text) ==
    {c \in DOMAIN calls :
        /\ calls[c].request.sent
        /\ calls[c].via \in Functions
        /\ TypeNamed(calls[c]) = type
        /\ calls[c].text = text}

\* C13: the prompt build is deterministic.  For every recognized type and
\* every source text, all the calls that built a prompt for that (type,
\* text) carry one and the same string, whether the build was made by
\* generateContent or by the function of the type, before or after the
\* other call, by a call in flight or ended, under whatever key and table
\* the module was loaded with and whatever key the environment holds since;
\* and that string is made of the clause of the type and the source text
\* alone.
C13_PromptIsDeterministic ==
    \A type \in GenerationTypes, text \in ConcurrentTexts :
        /\ \A c, d \in BuiltFor(type, text) :
              UserMessage(calls[c]) = UserMessage(calls[d])
        /\ \A c \in BuiltFor(type, text) :
              UserMessage(calls[c])
                 = InstructionClause(type) \o text \o AfterText(type)

\* Two builds for the same keywords request, one by generateContent in a
\* call that has ended and one by generateKeywords in a call in flight,
\* under an overridden table and after the key of the environment changed.
C13_Witness ==
    /\ BuiltFor("keywords", "A story about a detective.") = {1, 2}
    /\ calls[1].via = "generateContent"
    /\ calls[1].pc = "done"
    /\ calls[2].via = "generateKeywords"
    /\ calls[2].pc = "awaiting"
    /\ generationConfig["blurb"].max_tokens = Dec(30, 0)
    /\ env["OPENAI_API_KEY"] = StringVal(OtherKey)
    /\ UserMessage(calls[2]) = KeywordsClause \o "A story about a detective."

\* C14: the prompt of a request is the instruction clause of its type
\* followed by the source text verbatim (and, for categories only, by the
\* instruction to answer in JSON with "main" and "sub"); the six clauses are
\* pairwise distinct, so no other type gives this prompt for the same text;
\* and a prompt of another type never ends with the JSON instruction.
C14_PromptIsClauseThenText ==
    \A c \in CallIds :
        LET call == calls[c]
        IN  (call.request.sent /\ call.via \in Functions) =>
               LET type == TypeNamed(call)
               IN  /\ UserMessage(call)
                        = InstructionClause(type) \o call.text \o AfterText(type)
                   /\ \A t1, t2 \in GenerationTypes :
                         t1 # t2 => InstructionClause(t1) # InstructionClause(t2)
                   /\ \A t \in GenerationTypes \ {type} :
                         BuildPrompt(t, call.text).prompt # UserMessage(call)
                   /\ type # "categories" =>
                         \A t \in GenerationTypes, x \in Texts :
                            UserMessage(call)
                               # InstructionClause(t) \o x \o CategoriesJsonClause

\* The categories request of the end-to-end scenario: its prompt is the
\* clause, the text and the JSON instruction, character for character.
C14_Witness ==
    \E c \in CallIds :
        /\ calls[c].pc = "awaiting"
        /\ calls[c].type = "categories"
        /\ calls[c].text = "A story about a detective."
        /\ UserMessage(calls[c]) =
             "Assegna una categoria principale e due sottocategorie per il libro dal catalogo, basandoti sul seguente contenuto:\n\nA story about a detective.\n\nRispondi in formato JSON con \"main\" per la categoria principale e \"sub\" come array per le sottocategorie."

\* The messages of the failures a call of generateContent may end with.
DocumentedFailures ==
    {InvalidTypeMessage, MissingKeyMessage, GenerationFailedMessage}

\* C15 as stated: a call that has completed has exactly one outcome, which is
\* either the return of a non-empty text string or one failure of the
\* documented kinds; a return is never the empty string nor a value that is
\* not text.
C15_OutcomeIsTextOrFailure ==
    \A c \in CallIds :
        LET call == calls[c]
        IN  (call.pc = "done" /\ call.invoked = 1) =>
               \/ /\ call.outcome.kind = "returned"
                  /\ call.outcome.value.t = "string"
                  /\ call.outcome.value.s # ""
                  /\ call.outcome.message = ""
               \/ /\ call.outcome.kind = "threw"
                  /\ call.outcome.value = JUndefined
                  /\ call.outcome.message \in DocumentedFailures

\* The call of slot c is what it would be had it run alone, with the same
\* inputs and the same answer of the upstream.
RanAsIfAlone(call) ==
    LET alone == generateContent(call.type, call.text,
                                 OPENAI_API_KEY, generationConfig)
    IN  CASE call.pc = "awaiting" -> call = alone
          [] call.pc = "reading" ->
                call = generateContentAfterFetch(alone, call.result)
          [] call.pc = "done" ->
                call = IF alone.pc = "done" THEN alone
                       ELSE generateContentResume(alone, call.result)
          [] OTHER -> call = Idle

\* Two calls with the same inputs carry the same request, and with the same
\* answer they have the same outcome.
SameInputsSameRun(a, b) ==
    (a.invoked = 1 /\ b.invoked = 1 /\ a.type = b.type /\ a.text = b.text) =>
       /\ a.request = b.request
       /\ (a.pc = "done" /\ b.pc = "done" /\ a.result = b.result)
             => a.outcome = b.outcome

\* C16: no call of generateContent changes shared state (the table and the
\* credential are never changed, and a step of a call leaves the process
\* environment and every other call as they were), and under every
\* interleaving each call's request and outcome are those of the call run
\* alone with the same upstream answer.
C16_CallsShareNoState ==
    [][ /\ OPENAI_API_KEY' = OPENAI_API_KEY
        /\ generationConfig' = generationConfig
        /\ calls' # calls => env' = env
        /\ \A c \in DOMAIN calls :
              /\ calls'[c] # calls[c]
                    => \A d \in DOMAIN calls \ {c} : calls'[d] = calls[d]
              /\ RanAsIfAlone(calls[c])'
              /\ \A d \in DOMAIN calls :
                    SameInputsSameRun(calls[c], calls[d])'
      ]_vars

\* Two calls interleaved: the second was made while the first was in flight
\* and is still waiting when the first has returned its text.
C16_Witness ==
    /\ calls[1].pc = "done"
    /\ calls[1].type = "blurb"
    /\ calls[1].outcome = Returned(JStr("Generated content text"))
    /\ calls[2].pc = "awaiting"
    /\ calls[2].type = "categories"
    /\ calls[2].text = calls[1].text
    /\ calls[2].request # calls[1].request
    /\ calls[2].request.authorization.credential = OPENAI_API_KEY

\* What a completed call that sent its request holds: the rejection of
\* fetch, or a response whose body was read or failed to be read.
SettledResults ==
    {FetchRejected}
        \cup {BodyRead(r, reads) : r \in ConcurrentResults \ {FetchRejected},
                                   reads \in BOOLEAN}

\* C17: generateContent has no timeout of its own. A call that has sent its
\* request completes only by the answer of the upstream or the failure of
\* the transport: a completed call that sent a request holds that answer,
\* a call that waits for fetch stays so until fetch settles, and a call that
\* reads the body stays so until the read settles. And when the upstream
\* answers in the end, the call completes in the end, with a return or a
\* failure.
C17_CompletesWhenFetchSettles ==
    /\ [](\A c \in CallIds :
             (calls[c].pc = "done" /\ calls[c].sent = 1)
                => calls[c].result \in SettledResults)
    /\ [][\A c \in CallIds :
             /\ (calls[c].pc = "awaiting" /\ calls'[c] # calls[c])
                   => /\ calls'[c].result \in ConcurrentResults
                      /\ calls'[c].pc =
                           IF calls'[c].result = FetchRejected
                           THEN "done" ELSE "reading"
                      /\ calls'[c].request = calls[c].request
             /\ (calls[c].pc = "reading" /\ calls'[c] # calls[c])
                   => /\ calls'[c].pc = "done"
                      /\ \E reads \in BOOLEAN :
                            calls'[c].result = BodyRead(calls[c].result, reads)
                      /\ calls'[c].request = calls[c].request]_vars
    /\ \A c \in CallIds :
          (calls[c].pc = "awaiting")
             ~> (calls[c].pc = "done"
                   /\ calls[c].outcome.kind \in {"returned", "threw"})

\* The transport failed in the end and the call completed with the failure.
C17_Witness ==
    \E c \in CallIds :
        /\ calls[c].pc = "done"
        /\ calls[c].sent = 1
        /\ calls[c].result = FetchRejected
        /\ calls[c].outcome = Threw(GenerationFailedMessage)

\* C18 as stated: the credential of a call is the one the process
\* environment holds when the call is made. A call of a recognized type made
\* while the environment holds no key fails as missing credential without a
\* request, and one made while it holds a key sends that key, also when the
\* key was set or changed after the process start.
C18_CredentialOfCallTime ==
    [][\A c \in CallIds :
          ( /\ calls[c].pc = "idle"
            /\ calls'[c].invoked = 1
            /\ calls'[c].type \in GenerationTypes )
          => IF Truthy(env["OPENAI_API_KEY"])
             THEN /\ calls'[c].request.sent
                  /\ calls'[c].request.authorization.credential
                       = env["OPENAI_API_KEY"].v
             ELSE /\ ~calls'[c].request.sent
                  /\ calls'[c].outcome = Threw(MissingKeyMessage)]_vars

\* What a header carries after its first blank, up to the next blank.
TokenAfterFirstBlank(str) ==
    LET blanks == {i \in 1..Len(str) : str[i] = Sp}
    IN  IF blanks = {} THEN <<>>
        ELSE LET first == CHOOSE i \in blanks : \A k \in blanks : i <= k
                 later == {k \in blanks : k > first}
                 last == IF later = {} THEN Len(str)
                         ELSE (CHOOSE i \in later : \A k \in later : i <= k) - 1
             IN  SubSeq(str, first + 1, last)

\* A property of a decoded token, undefined when the token has none.
Decoded(claims, field) ==
    IF field \in DOMAIN claims THEN claims[field] ELSE JUndefined

\* C19: withAuth runs the wrapped handler only for a request whose
\* Authorization header is present, carries a token after its first blank,
\* and whose token verifyToken accepts; the request's user is then exactly
\* the user_id, username and email decoded from that token. In every other
\* case the response is 401 and the handler is not run.
C19_HandlerRunsOnlyForVerifiedToken ==
    auth.last.op = "withAuth" =>
       LET r == auth.last
           token == IF r.header.set THEN TokenAfterFirstBlank(r.header.v)
                    ELSE <<>>
           checked == verifyToken(token, JWT_SECRET, r.at)
       IN  IF r.header.set /\ token # <<>> /\ ~checked.threw
           THEN /\ r.ran = 1
                /\ r.user = JObj([user_id |-> Decoded(checked.value.o, "user_id"),
                                  username |-> Decoded(checked.value.o, "username"),
                                  email |-> Decoded(checked.value.o, "email")])
           ELSE /\ r.ran = 0
                /\ r.status = 401
                /\ r.user = JUndefined

\* A request with the token issued half an hour before, under a configured
\* secret: the handler ran, with the user of the token.
C19_Witness ==
    /\ auth.last.op = "withAuth"
    /\ JWT_SECRET = "s3cret"
    /\ auth.issued.at = 0
    /\ auth.last.at = HalfHour
    /\ auth.last.header = Header(<<Word("Bearer"), Sp>> \o auth.issued.token)
    /\ auth.last.ran = 1
    /\ auth.last.status = 200
    /\ auth.last.user = JObj([user_id |-> JStr("123"),
                              username |-> JStr("testuser"),
                              email |-> JStr("test@example.com")])

\* The instants of the clock.
Times == {k * HalfHour : k \in 0..MaxTicks}

\* The token strings generateToken gives in this process, at any instant.
ProducedHere ==
    {generateToken(p, e, JWT_SECRET, t).value :
        p \in {q \in Payloads : ~generateToken(q, "1h", JWT_SECRET, 0).threw},
        e \in ExpiresIns, t \in Times}

\* The last operation verified the token issued last before it expired,
\* that is before the exp the token carries.
VerifiedIssuedInTime ==
    /\ auth.last.op = "verifyToken"
    /\ auth.issued.token # <<>>
    /\ auth.last.token = auth.issued.token
    /\ auth.last.at < Seconds(auth.issued.token[1].claims["exp"])

\* The payload carries none of the claims jsonwebtoken reads.
Plain(payload) == DOMAIN payload \cap {"exp", "iat", "nbf"} = {}

\* The last operation verified a string that generateToken did not produce
\* with the secret of this process.
VerifiedForeignString ==
    /\ auth.last.op = "verifyToken"
    /\ auth.last.token \notin ProducedHere

OneRegistersOtherConflicts(a, b) ==
    (a.pc = "done" /\ b.pc = "done") =>
       /\ ~(a.response.status = 201 /\ b.response.status = 201)
       /\ a.response.status = 201 => b.response.status = 409
       /\ b.response.status = 201 => a.response.status = 409

\* A registration: a POST with the three fields.
IsRegistration(req) ==
    /\ req.method = "POST"
    /\ req.body.username # ""
    /\ req.body.email # ""
    /\ req.body.password # ""

\* C21 as stated: whatever the interleaving of the registration requests,
\* no two stored users share an email or a username, and of two
\* registrations with the same email (or the same username) at most one is
\* answered 201 with a stored user and the other one is answered 409.
C21_UsersAreUnique ==
    /\ \A u, v \in db.Users :
          u # v => (u.email # v.email /\ u.username # v.username)
    /\ \A a, b \in DOMAIN reqs :
          ( /\ a # b
            /\ reqs[a].pc # "idle"
            /\ reqs[b].pc # "idle"
            /\ IsRegistration(reqs[a])
            /\ IsRegistration(reqs[b])
            /\ \/ reqs[a].body.email = reqs[b].body.email
               \/ reqs[a].body.username = reqs[b].body.username )
          => OneRegistersOtherConflicts(reqs[a], reqs[b])

\* C22: in the generate endpoint that records a log, a failure of recordLog
\* never changes the response: when the generation returned, the response
\* is 200 with the generated output, whether the log was inserted or not;
\* and recordLog is called only after a generation that returned, never for
\* a rejected request or a failed generation.
C22_LogFailureKeepsResponse ==
    \A c \in CallIds :
        LET call == calls[c]
        IN  call.via = "handlerWithLog" =>
              /\ call.logAttempts = 1
                    <=> (call.pc \in {"logging", "done"}
                            /\ call.outcome.kind = "returned")
              /\ call.logAttempts \in {0, 1}
              /\ (call.pc = "done" /\ call.outcome.kind = "returned")
                    => call.http =
                         [status |-> 200,
                          message |-> "Contenuto generato con successo.",
                          error |-> "", output |-> call.outcome.value]
              /\ (call.pc = "done" /\ call.outcome.kind # "returned")
                    => call.http.status \in {400, 405, 500}
              /\ call.http.status = 200 => call.logAttempts = 1

\* The generation returned its text, the insert of the log failed, and the
\* response is 200 with that text.
C22_Witness ==
    \E c \in CallIds :
        /\ calls[c].via = "handlerWithLog"
        /\ calls[c].pc = "done"
        /\ calls[c].logAttempts = 1
        /\ calls[c].logged = <<"insert failed", "Unable to record log entry.">>
        /\ db.Logs = {}
        /\ calls[c].http.status = 200
        /\ calls[c].http.output = JStr("Generated content text")

\* The text the library extracted, or the fixed failure of the format.
ParsedAsClaimed(req, field, failure) ==
    IF req.library.kind = "resolved"
    THEN req.outcome = [kind |-> "returned",
                        value |-> req.library.value.o[field], message |-> ""]
    ELSE req.outcome = [kind |-> "threw", value |-> JUndefined,
                        message |-> failure]

\* C23: parseDocx and parsePdf return the text the library extracted,
\* unchanged, when the library succeeds; when the library fails they fail
\* with the fixed message of their format, never with the library's error.
C23_ParsersReturnTextOrFixedFailure ==
    \A r \in DOMAIN reqs :
        (reqs[r].pc = "done" /\ reqs[r].kind = "parse") =>
            IF reqs[r].format = "docx"
            THEN ParsedAsClaimed(reqs[r], "value",
                     "Impossibile estrarre il testo dal file DOCX.")
            ELSE ParsedAsClaimed(reqs[r], "text",
                     "Impossibile estrarre il testo dal file PDF.")

\* One parser returned the extracted text and the other failed with the
\* fixed message of its format while its library failed with another one,
\* which console.error received.
C23_Witness ==
    \E a, b \in DOMAIN reqs :
        /\ reqs[a].pc = "done" /\ reqs[a].kind = "parse"
        /\ reqs[b].pc = "done" /\ reqs[b].kind = "parse"
        /\ reqs[b].logged = <<"pdf-parse error">>
        /\ reqs[a].format = "docx"
        /\ reqs[a].outcome.kind = "returned"
        /\ reqs[a].outcome.value = JStr("  two  words \n")
        /\ reqs[b].format = "pdf"
        /\ reqs[b].library = LibraryFailed("pdf-parse error")
        /\ reqs[b].outcome.kind = "threw"
        /\ reqs[b].outcome.message = "Impossibile estrarre il testo dal file PDF."

\* The id of the user a sender is, by the token issued to them.
IdOf(who) ==
    CASE who = "A" -> JStr("123")
      [] who = "C" -> JStr("3cbeb717-90ff-405b-b222-9bf56df07e8b")
      [] who = "D" -> JStr("9f1c2d3e-4b5a-4c6d-8e7f-0a1b2c3d4e5f")
      [] OTHER -> JStr("456")

IsSession(req) == req.pc # "idle" /\ req.kind = "session"

\* C24: the session endpoint acts only for the authenticated user: a POST
\* stores a record whose user_id is the id of the verified token, whatever
\* user_id the body carries; a GET returns only records of the
\* authenticated user; a sender without a verified token gets 401 and
\* nothing is stored or read; every stored record was created by a POST of
\* the user it belongs to.
C24_SessionsOfTheAuthenticatedUser ==
    /\ \A r \in DOMAIN reqs :
          IsSession(reqs[r]) =>
             /\ reqs[r].who \in {"forged B", "anonymous"}
                   => (reqs[r].pc = "done" /\ reqs[r].response.status = 401)
             /\ ( /\ reqs[r].pc = "done"
                  /\ reqs[r].response.status = 200
                  /\ reqs[r].method = "POST" )
                   => /\ reqs[r].who \in {"A", "B"}
                      /\ reqs[r].response.data.session.user_id
                            = IdOf(reqs[r].who)
                      /\ reqs[r].response.data.session \in db.SessionHistory
             /\ ( /\ reqs[r].pc = "done"
                  /\ reqs[r].response.status = 200
                  /\ reqs[r].method = "GET" )
                   => /\ reqs[r].who \in {"A", "B"}
                      /\ \A s \in reqs[r].response.data.sessions :
                            s.user_id = IdOf(reqs[r].who)
    /\ \A s \in db.SessionHistory :
          \E r \in DOMAIN reqs :
             /\ IsSession(reqs[r])
             /\ reqs[r].method = "POST"
             /\ reqs[r].who \in {"A", "B"}
             /\ IdOf(reqs[r].who) = s.user_id
             /\ reqs[r].pc = "done"
             /\ reqs[r].response = [status |-> 200,
                                    message |-> "Sessione registrata con successo.",
                                    error |-> "", data |-> [session |-> s]]

\* User A posted a session with the id of user B in the body: the record
\* is stored under A's id, and a GET of user B made afterwards returned no
\* record.
C24_Witness ==
    \E a, b \in DOMAIN reqs :
        /\ IsSession(reqs[a]) /\ IsSession(reqs[b])
        /\ reqs[a].who = "A" /\ reqs[a].method = "POST"
        /\ reqs[a].body.user_id = JStr("456")
        /\ reqs[a].pc = "done" /\ reqs[a].response.status = 200
        /\ reqs[a].response.data.session.user_id = JStr("123")
        /\ reqs[b].who = "B" /\ reqs[b].method = "GET"
        /\ reqs[b].pc = "done" /\ reqs[b].response.status = 200
        /\ reqs[b].response.data.sessions = {}
        /\ db.SessionHistory # {}

\* The characters of a text that are no white space, and those of them that
\* begin a word.
InWord(text) == {i \in 1..Len(text) : text[i] \notin {" ", "\n"}}
WordStarts(text) ==
    {i \in InWord(text) : i = 1 \/ text[i - 1] \in {" ", "\n"}}

\* The length of the text between its first and its last character that is
\* no white space.
TrimmedLength(text) ==
    LET in == InWord(text)
    IN  IF in = {} THEN 0
        ELSE (CHOOSE k \in in : \A l \in in : l <= k)
                - (CHOOSE k \in in : \A l \in in : k <= l) + 1

\* C25: analyzeDocument returns four zeros for an empty or whitespace-only
\* text; for any other text wordCount is at least 1, characterCount is the
\* length of the trimmed text and at least the sum of the word lengths, and
\* averageWordLength is that sum divided by wordCount.
C25_AnalysisOfText ==
    \A r \in DOMAIN reqs :
        (reqs[r].pc # "idle" /\ reqs[r].kind = "analyze") =>
            LET text == reqs[r].text
                a == reqs[r].analysis
                sum == Cardinality(InWord(text))
            IN  IF InWord(text) = {}
                THEN /\ a.wordCount = 0
                     /\ a.characterCount = 0
                     /\ a.sentenceCount = 0
                     /\ a.averageWordLength.num = 0
                ELSE /\ a.wordCount >= 1
                     /\ a.wordCount = Cardinality(WordStarts(text))
                     /\ a.characterCount = TrimmedLength(text)
                     /\ a.characterCount >= sum
                     /\ a.averageWordLength.num * a.wordCount
                           = sum * a.averageWordLength.den
                     /\ a.averageWordLength.den >= 1

\* A text that begins with a blank and has two words of lengths 1 and 2
\* was analysed: 4 characters once trimmed, average word length 3/2.
C25_Witness ==
    \E r \in DOMAIN reqs :
        /\ reqs[r].pc # "idle" /\ reqs[r].kind = "analyze"
        /\ reqs[r].text = <<" ", "a", "\n", "a", ".">>
        /\ reqs[r].analysis.wordCount = 2
        /\ reqs[r].analysis.characterCount = 4
        /\ reqs[r].analysis.averageWordLength = [num |-> 3, den |-> 2]

\* What the claim says of a request with the given method and body fields,
\* once the handler has taken it.
ValidatedFirst(call, method, type, extractedText) ==
    /\ method # "POST"
          => /\ call.pc = "done"
             /\ call.http.status = 405
             /\ call.invoked = 0 /\ call.sent = 0
    /\ (method = "POST" /\ (type = "" \/ extractedText = ""))
          => /\ call.pc = "done"
             /\ call.http.status = 400
             /\ call.http.error
                   = "Campi \"type\" e \"extractedText\" sono obbligatori."
             /\ call.invoked = 0 /\ call.sent = 0
    /\ ( /\ method = "POST" /\ type # "" /\ extractedText # ""
         /\ type \notin {"blurb", "description", "keywords", "categories",
                         "foreword", "analysis"} )
          => /\ call.pc = "done"
             /\ call.http.status = 400
             /\ call.http.error = "Tipo di generazione non supportato."
             /\ call.invoked = 0 /\ call.sent = 0

\* C26: the generate HTTP handler validates before it generates: a
\* non-POST request gets 405, a missing or empty type or extractedText
\* gets 400, an unrecognized type gets 400, and in none of these cases a
\* generation function is called or a request sent; a generation that
\* fails, for whatever cause, gets 500 with one fixed message.  Stated for
\* the handler of pages/api/generate.ts and for the one that records a log.
C26_ValidatesBeforeGenerating ==
    /\ [](\A c \in CallIds :
            ( /\ calls[c].via \in {"handler", "handlerWithLog"}
              /\ calls[c].pc = "done"
              /\ calls[c].outcome.kind = "threw" )
            => calls[c].http =
                 [status |-> 500, message |-> "",
                  error |-> "Errore interno del server durante la generazione del contenuto.",
                  output |-> JUndefined])
    /\ [][\A c \in CallIds, method \in Methods, type \in Types \cup {""},
             text \in Texts :
             ( \/ Handler(c, method, type, text)
               \/ HandlerWithLog(c, method, type, text) )
             => ValidatedFirst(calls'[c], method, type, text)]_vars

\* A POST with an unrecognized type was answered 400 and no generation
\* function was called.
C26_Witness ==
    \E c \in CallIds :
        /\ calls[c].via = "handlerWithLog"
        /\ calls[c].pc = "done"
        /\ calls[c].type = "bogus-type"
        /\ calls[c].text = "Test extracted text"
        /\ calls[c].http.status = 400
        /\ calls[c].http.error = "Tipo di generazione non supportato."
        /\ calls[c].invoked = 0
        /\ calls[c].sent = 0

\* A validation result as the claim describes it for size s and type t.
AsClaimed(result, s, t) ==
    /\ result.valid <=>
          ( /\ s <= 31457280
            /\ t \in {"application/pdf",
                      "application/vnd.openxmlformats-officedocument.wordprocessingml.document"} )
    /\ s > 31457280 => result.error = "Il file supera il limite di 30MB."
    /\ (s <= 31457280 /\ ~result.valid)
          => result.error \in {"Tipo di file non supportato.",
                               "Tipo di file non supportato. Carica solo DOCX o PDF."}
    /\ result.valid => result.error = ""

\* C29: with the limits the upload page passes, the browser's validateFile
\* and the server's validateUploadedFile accept the same files: size at most
\* 30MB and type DOCX or PDF; and in both the size error takes precedence
\* over the type error.
C29_ClientAndServerAgree ==
    /\ reqs[1].pc # "idle" => AsClaimed(reqs[1].result, reqs[1].size, reqs[1].type)
    /\ reqs[2].pc # "idle" => AsClaimed(reqs[2].result, reqs[2].size, reqs[2].type)
    /\ ( /\ reqs[1].pc # "idle" /\ reqs[2].pc # "idle"
         /\ reqs[1].size = reqs[2].size /\ reqs[1].type = reqs[2].type )
          => reqs[1].result.valid = reqs[2].result.valid

\* Both validations were given a PDF of exactly 30MB and accepted it.
C29_Witness ==
    /\ reqs[1].pc # "idle" /\ reqs[2].pc # "idle"
    /\ reqs[1].size = 31457280 /\ reqs[2].size = 31457280
    /\ reqs[1].type = "application/pdf" /\ reqs[2].type = "application/pdf"
    /\ reqs[1].result.valid /\ reqs[2].result.valid

\* The file names drawn whose extension is .docx or .pdf in any case.
NamedDocxOrPdf ==
    {<<"book", ".", "docx">>, <<"book", ".", "PDF">>,
     <<"book", ".", "pdf", ".", "docx">>}

DocxOrPdf ==
    {"application/pdf",
     "application/vnd.openxmlformats-officedocument.wordprocessingml.document"}

\* The upload passed every check the claim lists.
PassedEveryCheck(req) ==
    /\ req.method = "POST"
    /\ req.who \in {"A", "C", "D"}
    /\ req.uploadedFile
    /\ req.file.size <= 31457280
    /\ req.file.mimetype.t = "string" /\ req.file.mimetype.s \in DocxOrPdf
    /\ req.file.originalFilename \in NamedDocxOrPdf
    /\ req.extracted.kind = "returned"

\* C27: the upload handler writes a Files record only for an upload that
\* passed every check (POST, a file present, at most 30MB, MIME type DOCX
\* or PDF, extension .docx or .pdf, text extracted); an upload that is
\* rejected or fails leaves the Files table as it was; every record written
\* has processing_status 'complete' and the id of the authenticated user.
C27_RecordOnlyForCheckedUpload ==
    /\ [](\A f \in db.Files :
             /\ f.processing_status = "complete"
             /\ f.user_id \in {IdOf("C"), IdOf("D")}
             /\ f.file_size <= 31457280
             /\ f.file_type \in DocxOrPdf
             /\ f.file_name \in NamedDocxOrPdf)
    /\ [][ /\ db.Files' # db.Files
              => /\ reqs[1].pc = "insert"
                 /\ PassedEveryCheck(reqs[1])
                 /\ reqs'[1].response.status = 200
                 /\ \E f \in db.Files' :
                       /\ db.Files' = db.Files \cup {f}
                       /\ f = reqs'[1].response.data.file
                       /\ f.processing_status = "complete"
                       /\ f.user_id = IdOf(reqs[1].who)
           /\ ( /\ reqs[1].pc \notin {"idle", "done"}
                /\ reqs'[1].pc = "done"
                /\ reqs'[1].response.status # 200 )
              => db.Files' = db.Files ]_vars

\* User C's PDF of exactly 30MB was stored as complete under C's id, and a
\* later upload of user D, refused for its MIME type, left the table with
\* that one record.
C27_Witness ==
    /\ reqs[1].pc = "done"
    /\ reqs[1].kind = "upload"
    /\ reqs[1].who = "D"
    /\ reqs[1].response.status = 400
    /\ reqs[1].response.error
          = "Tipo di file non supportato. Carica solo DOCX o PDF."
    /\ \E f \in db.Files :
          /\ db.Files = {f}
          /\ f.user_id = JStr("3cbeb717-90ff-405b-b222-9bf56df07e8b")
          /\ f.file_size = 31457280
          /\ f.file_type = "application/pdf"
          /\ f.file_name = <<"book", ".", "PDF">>
          /\ f.processing_status = "complete"

\* C28 as stated: for every upload the handler accepts, the parser applied
\* agrees with the validated MIME type: a PDF is never parsed by parseDocx
\* and a DOCX never by parsePdf.
C28_ParserAgreesWithMimeType ==
    ( /\ reqs[1].pc = "done"
      /\ reqs[1].kind = "upload"
      /\ reqs[1].response.status = 200 )
    => /\ reqs[1].file.mimetype = JStr("application/pdf")
             => reqs[1].parser = "parsePdf"
       /\ reqs[1].file.mimetype = JStr(DocxMime)
             => reqs[1].parser = "parseDocx"

IsLogin(req) == req.pc # "idle" /\ req.kind = "login"

\* A finished login request with both fields, for an email no user has.
UnknownEmail(req) ==
    /\ IsLogin(req) /\ req.pc = "done" /\ req.method = "POST"
    /\ req.body.email # "" /\ req.body.password # ""
    /\ req.response.status # 500
    /\ \A u \in db.Users : u.email # req.body.email

\* A finished login request for a registered email with another password
\* than the one the user registered.
WrongPassword(req) ==
    /\ IsLogin(req) /\ req.pc = "done" /\ req.method = "POST"
    /\ req.body.email # "" /\ req.body.password # ""
    /\ req.response.status # 500
    /\ \E u \in db.Users :
          u.email = req.body.email
             /\ u.hashed_password # [bcrypt |-> req.body.password]

=============================================================================
